---- MODULE Spec2Model ----
(***************************************************************************)
(* Sprint Analytics Engine of curly-memory: the sprint filter              *)
(* (services/jira/sprint_service.py), the status transition processor with *)
(* its averaging and the issue metrics (services/jira/issue_service.py),   *)
(* and the orchestrator (services/jira/jira_analyzer.py).                  *)
(*                                                                         *)
(* Python values are encoded so that every comparison is between values    *)
(* of one shape:                                                           *)
(*   - a timestamp (an ISO string of the tracker, or a datetime of the     *)
(*     configuration) is a record [kind, t]: kind "aware" (parses, carries *)
(*     an offset), "naive" (parses, no offset), "bad" (does not parse),    *)
(*     "none" (None or the empty string);                                  *)
(*   - the outcome of a Python call that may raise is a record [exc, val]; *)
(*   - an object is a record whose fields are the attributes it has, a     *)
(*     dict is a record whose fields are the keys it has.                  *)
(***************************************************************************)
EXTENDS Integers, Sequences, FiniteSets, TLC

VARIABLES
    \* ---- SprintService._apply_sprint_filters -------------------------------
    filter_config,      \* the filter_config dict
    sprint,             \* the sprint object of the current loop iteration
    seen,               \* number of sprints of the list iterated so far
    filtered_sprints,   \* ids of the sprints appended to filtered_sprints
    error_log,          \* ids of the sprints for which logger.error was called
    fpc,                \* "idle" | "loop" | "returned" | "raised"
    \* ---- IssueService.get_avg_time_per_status -----------------------------
    window_sprint,      \* the sprint argument (None, a tracker resource, a Sprint model)
    issues_done,        \* number of issues iterated so far
    changelog_answer,   \* the tracker's answer for the current issue: [raises, changelogs]
    all_changelogs,     \* changelogs the tracker returned for the current issue
    status_changelogs,  \* what is handed to calculate_time_per_status
    issue_status_times, \* duration map of the current issue
    all_status_times,   \* status -> list of the durations the issues credited
    avg_status_times,   \* the returned averages
    apc,                \* "idle" | "loop" | "returned"
    \* ---- IssueService metrics: one call of a method of the service -------
    issues,             \* the issues argument
    priority_name,      \* the priority_name argument of classify_priority
    mpc,                \* "idle" | "start" | the name of the method that returned
    returned,           \* the outcome of the call
    \* ---- JiraAnalyzer.analyze_project -----------------------------------
    tracker_boards,     \* the boards the tracker returns for the project
    board_sprints,      \* per analysed board, the tracker's answers: [sprints, fail_at]
    results,            \* the results dict
    report,             \* the outcome of generate_report(results)
    ppc,                \* "idle" | "boards" | "returned" | "reported"
    \* ---- SprintService.get_sprints_for_board, lines 16-42 ---------------
    board_sprint_ids,   \* the sprints the tracker holds for the board
    page_cap,           \* the most sprints the tracker puts on a page
    start_at,           \* start_at
    all_sprints,        \* all_sprints
    requests,           \* the startAt of the page requests made, in order
    received,           \* the pages received, in order
    spc,                \* "idle" | "loop" | "returned" | "failed"
    \* ---- GithubClient ----------------------------------------------------
    GITHUB_CONFIG,      \* constants.GITHUB_CONFIG
    heap,               \* the GithubClient objects allocated so far
    _instance,          \* GithubClient._instance: 0 for None, else a heap index
    clients,            \* what the calls GithubClient() returned, in order
    init_runs           \* how often lines 38-43 of __init__ ran

filterVars == <<filter_config, sprint, seen, filtered_sprints, error_log, fpc>>
avgVars == <<window_sprint, issues_done, changelog_answer, all_changelogs, status_changelogs,
             issue_status_times, all_status_times, avg_status_times, apc>>
metricVars == <<issues, priority_name, mpc, returned>>
projectVars == <<tracker_boards, board_sprints, results, report, ppc>>
pageVars == <<board_sprint_ids, page_cap, start_at, all_sprints, requests, received, spc>>
githubVars == <<GITHUB_CONFIG, heap, _instance, clients, init_runs>>
vars == <<filterVars, avgVars, metricVars, projectVars, pageVars, githubVars>>

(***************************************************************************)
(* Bounds of the model.                                                    *)
(***************************************************************************)
MaxTime == 3
MaxSprints == 2
MaxStamp == 2
MaxLog == 3
MaxIssues == 2
MaxBugs == 3

Times == 0..MaxTime

(***************************************************************************)
(* Python values.                                                          *)
(***************************************************************************)
Aware(t) == [kind |-> "aware", t |-> t]
Naive(t) == [kind |-> "naive", t |-> t]
BadDate == [kind |-> "bad", t |-> 0]
NoDate == [kind |-> "none", t |-> 0]

\* Outcome of a call: exc = an exception leaves it, val = the value it
\* returns, err = logger.error was called on the way.
Ok(v) == [exc |-> FALSE, val |-> v, err |-> FALSE]
Raised == [exc |-> TRUE, val |-> FALSE, err |-> FALSE]
\* `except Exception as e: self.logger.error(...); return False`
Caught == [exc |-> FALSE, val |-> FALSE, err |-> TRUE]

hasattr(obj, name) == name \in DOMAIN obj

\* dict.get(key, default)
DictGet(d, key, default) == IF key \in DOMAIN d THEN d[key] ELSE default

\* `not x` of a timestamp string: None and "" are falsy
FalsyDate(d) == d.kind = "none"

\* datetime.fromisoformat(s): TypeError on None, ValueError on an unparsable
\* string; otherwise the datetime, aware or naive as the string says.
fromisoformat(s) ==
    IF s.kind \in {"aware", "naive"} THEN [exc |-> FALSE, val |-> s]
    ELSE [exc |-> TRUE, val |-> s]

DatetimeLt(a, b) ==
    IF a.kind = b.kind /\ a.kind \in {"aware", "naive"}
    THEN [exc |-> FALSE, val |-> a.t < b.t, err |-> FALSE]
    ELSE [exc |-> TRUE, val |-> FALSE, err |-> FALSE]

\* a <= b of two datetimes: TypeError when one is None or when an aware
\* datetime meets a naive one.
DatetimeLe(a, b) ==
    IF a.kind = "aware" /\ b.kind = "aware" THEN Ok(a.t <= b.t)
    ELSE IF a.kind = "naive" /\ b.kind = "naive" THEN Ok(a.t <= b.t)
    ELSE Raised

\* str.lower() on the state names and the priority names of the model
lower(s) ==
    CASE s = "Closed" -> "closed"
      [] s = "FUTURE" -> "future"
      [] s = "ACTIVE" -> "active"
      [] s = "Highest" -> "highest"
      [] s = "HIGH" -> "high"
      [] s = "High" -> "high"
      [] s = "Medium" -> "medium"
      [] s = "MEDIUM" -> "medium"
      [] s = "Low" -> "low"
      [] s = "LOWEST" -> "lowest"
      [] s = "Blocker" -> "blocker"
      [] s = "None" -> "none"
      [] OTHER -> s

InList(x, l) == \E i \in 1..Len(l) : l[i] = x

\* The value None where a state name is expected
NoneStr == "<None>"

EmptyDict == [k \in {} |-> FALSE]

(***************************************************************************)
(* SprintService (services/jira/sprint_service.py)                         *)
(***************************************************************************)

NoEndDateIncludedByDefault(s, start_date, end_date, cfg) ==
    IF ~hasattr(s, "endDate") \/ FalsyDate(s.endDate)
    THEN Ok(DictGet(cfg, "include_no_end_date", TRUE))
    ELSE IF ~hasattr(s, "startDate") THEN Raised
    ELSE LET sprint_start == fromisoformat(s.startDate)
             sprint_end == fromisoformat(s.endDate)
         IN  IF sprint_start.exc \/ sprint_end.exc THEN Raised
             ELSE LET starts_before == DatetimeLe(sprint_start.val, end_date)
                  IN  IF starts_before.exc THEN Raised
                      ELSE IF ~starts_before.val THEN Ok(FALSE)
                      ELSE DatetimeLe(start_date, sprint_end.val)

\* Body of the try block of _sprint_in_date_range.
_sprint_in_date_range_try(s, start_date, end_date, cfg) ==
    IF ~hasattr(s, "endDate") \/ FalsyDate(s.endDate)
    THEN Ok(DictGet(cfg, "include_no_end_date", FALSE))
    ELSE IF ~hasattr(s, "startDate") THEN Raised
    ELSE LET sprint_start == fromisoformat(s.startDate)
             sprint_end == fromisoformat(s.endDate)
         IN  IF sprint_start.exc \/ sprint_end.exc THEN Raised
             ELSE LET starts_before == DatetimeLe(sprint_start.val, end_date)
                  IN  IF starts_before.exc THEN Raised
                      ELSE IF ~starts_before.val THEN Ok(FALSE)
                      ELSE DatetimeLe(start_date, sprint_end.val)

DateRangeFailsOpen(s, start_date, end_date, cfg) ==
    LET r == _sprint_in_date_range_try(s, start_date, end_date, cfg)
    IN  IF r.exc THEN [exc |-> FALSE, val |-> TRUE, err |-> TRUE] ELSE r

_sprint_in_date_range(s, start_date, end_date, cfg) ==
    LET r == _sprint_in_date_range_try(s, start_date, end_date, cfg)
    IN  IF r.exc THEN Caught ELSE r

\* Body of the try block of _sprint_matches_state.
_sprint_matches_state_try(s, allowed_states) ==
    LET state == IF hasattr(s, "state") THEN s.state ELSE "unknown"
    IN  IF state = NoneStr THEN Raised
        ELSE Ok(InList(lower(state),
                       [i \in 1..Len(allowed_states) |-> lower(allowed_states[i])]))

_sprint_matches_state(s, allowed_states) ==
    LET r == _sprint_matches_state_try(s, allowed_states)
    IN  IF r.exc THEN Caught ELSE r

\* Lines 91-98: the sprint state filter and the final `return True`; date_err
\* carries the logger.error of the date check that ran before it.
CheckSprintState(s, cfg, date_err) ==
    IF Len(DictGet(cfg, "sprint_states", <<>>)) > 0
    THEN LET m == _sprint_matches_state(s, cfg.sprint_states)
         IN  IF m.exc THEN Raised
             ELSE [exc |-> FALSE, val |-> m.val, err |-> date_err \/ m.err]
    ELSE [exc |-> FALSE, val |-> TRUE, err |-> date_err]

StateFilterIsElseBranch(s, cfg) ==
    IF DictGet(DictGet(cfg, "date_range", EmptyDict), "enabled", FALSE)
    THEN LET date_range == cfg.date_range
             start_date == DictGet(date_range, "start_date", NoDate)
             end_date == DictGet(date_range, "end_date", NoDate)
         IN  _sprint_in_date_range(s, start_date, end_date, cfg)
    ELSE CheckSprintState(s, cfg, FALSE)

\* Lines 80-98: the date range filter, then the state filter.
CheckDateRangeThenState(s, cfg) ==
    IF DictGet(DictGet(cfg, "date_range", EmptyDict), "enabled", FALSE)
    THEN LET date_range == cfg.date_range
             start_date == DictGet(date_range, "start_date", NoDate)
             end_date == DictGet(date_range, "end_date", NoDate)
             d == _sprint_in_date_range(s, start_date, end_date, cfg)
         IN  IF d.exc THEN Raised
             ELSE IF ~d.val THEN [exc |-> FALSE, val |-> FALSE, err |-> d.err]
             ELSE CheckSprintState(s, cfg, d.err)
    ELSE CheckSprintState(s, cfg, FALSE)

SpecificIdsAsExtraConstraint(s, cfg) ==
    IF Len(DictGet(cfg, "specific_sprint_ids", <<>>)) > 0
       /\ ~InList(s.id, cfg.specific_sprint_ids)
    THEN Ok(FALSE)
    ELSE CheckDateRangeThenState(s, cfg)

\* Body of the try block of _sprint_matches_filters.
_sprint_matches_filters_try(s, cfg) ==
    IF Len(DictGet(cfg, "specific_sprint_ids", <<>>)) > 0
    THEN Ok(InList(s.id, cfg.specific_sprint_ids))
    ELSE CheckDateRangeThenState(s, cfg)

_sprint_matches_filters(s, cfg) ==
    LET r == _sprint_matches_filters_try(s, cfg)
    IN  IF r.exc THEN Caught ELSE r

(***************************************************************************)
(* Inputs of the sprint filter: the filter configurations and the sprint   *)
(* objects the tracker returns.                                            *)
(***************************************************************************)
SpecificSprintIdsOptions == {<<>>, <<2>>}

RangeStarts == {Aware(1), Aware(2)}
RangeEnds == {Aware(2)}

\* date_range: absent, disabled, enabled with both dates, enabled with the
\* start_date key missing.
DateRangeOptions ==
    {[enabled |-> FALSE, start_date |-> Aware(1), end_date |-> Aware(2)]}
    \cup {[enabled |-> TRUE, start_date |-> a, end_date |-> b] :
            a \in RangeStarts, b \in RangeEnds}
    \cup {[enabled |-> TRUE, end_date |-> b] : b \in RangeEnds}

SprintStatesOptions == {<<>>, <<"Closed", "unknown">>, <<"active", "future">>}

IncludeNoEndDateOptions ==
    {EmptyDict} \cup {[include_no_end_date |-> b] : b \in BOOLEAN}

FilterConfigs ==
    {[specific_sprint_ids |-> ids, sprint_states |-> st] @@ dr @@ inc :
        ids \in SpecificSprintIdsOptions,
        st \in SprintStatesOptions,
        dr \in {EmptyDict} \cup {[date_range |-> d] : d \in DateRangeOptions},
        inc \in IncludeNoEndDateOptions}

\* The attributes startDate / endDate of a sprint resource: a future sprint
\* has neither, an open sprint has no endDate (or an empty one); dated
\* sprints start no later than they end.
SprintDateAttrs ==
    {EmptyDict}
    \cup {[startDate |-> Aware(t)] : t \in {0, MaxTime}}
    \cup {[startDate |-> Aware(1), endDate |-> NoDate]}
    \cup {[startDate |-> Aware(a), endDate |-> Aware(b)] :
            a \in Times, b \in Times}
    \cup {[endDate |-> Aware(2)]}
    \cup {[startDate |-> BadDate, endDate |-> Aware(2)]}
    \cup {[startDate |-> Aware(1), endDate |-> BadDate]}
    \cup {[startDate |-> Aware(t), endDate |-> Naive(2)] : t \in {1, MaxTime}}

SprintStateAttrs ==
    {EmptyDict} \cup {[state |-> st] : st \in {"closed", "FUTURE", NoneStr}}

WellFormedDates(d) ==
    (hasattr(d, "startDate") /\ hasattr(d, "endDate")
       /\ d.startDate.kind = "aware" /\ d.endDate.kind = "aware")
    => d.startDate.t <= d.endDate.t

SprintObjects(id) ==
    {[id |-> id] @@ st @@ d :
        st \in SprintStateAttrs, d \in {x \in SprintDateAttrs : WellFormedDates(x)}}

NoSprint == [id |-> 0]

(***************************************************************************)
(* SprintService._apply_sprint_filters: one action per iteration of the    *)
(* loop over the sprints of the board, and one for the return.             *)
(***************************************************************************)
\* No changelog requested yet
NoAnswer == [raises |-> FALSE, changelogs |-> <<>>]

AvgIdle ==
    /\ window_sprint = EmptyDict
    /\ issues_done = 0
    /\ changelog_answer = NoAnswer
    /\ all_changelogs = <<>>
    /\ status_changelogs = <<>>
    /\ issue_status_times = EmptyDict
    /\ all_status_times = EmptyDict
    /\ avg_status_times = EmptyDict
    /\ apc = "idle"

MetricsIdle ==
    /\ issues = <<>>
    /\ priority_name = ""
    /\ mpc = "idle"
    /\ returned = EmptyDict

ProjectIdle ==
    /\ tracker_boards = <<>>
    /\ board_sprints = <<>>
    /\ results = EmptyDict
    /\ report = EmptyDict
    /\ ppc = "idle"

PageIdle ==
    /\ board_sprint_ids = <<>>
    /\ page_cap = 0
    /\ start_at = 0
    /\ all_sprints = <<>>
    /\ requests = <<>>
    /\ received = <<>>
    /\ spc = "idle"

GithubIdle ==
    /\ GITHUB_CONFIG = EmptyDict
    /\ heap = <<>>
    /\ _instance = 0
    /\ clients = <<>>
    /\ init_runs = 0

InitFilter ==
    /\ AvgIdle
    /\ MetricsIdle
    /\ ProjectIdle
    /\ PageIdle
    /\ GithubIdle
    /\ filter_config \in FilterConfigs
    /\ sprint = NoSprint
    /\ seen = 0
    /\ filtered_sprints = <<>>
    /\ error_log = <<>>
    /\ fpc = "loop"

ApplyFiltersIteration ==
    /\ fpc = "loop"
    /\ seen < MaxSprints
    /\ \E s \in SprintObjects(seen + 1) :
        LET r == _sprint_matches_filters(s, filter_config)
        IN  /\ sprint' = s
            /\ seen' = seen + 1
            /\ fpc' = IF r.exc THEN "raised" ELSE "loop"
            /\ filtered_sprints' =
                  IF ~r.exc /\ r.val THEN Append(filtered_sprints, s.id)
                  ELSE filtered_sprints
            /\ error_log' = IF r.err THEN Append(error_log, s.id) ELSE error_log
    /\ UNCHANGED <<filter_config, avgVars, metricVars, projectVars, pageVars, githubVars>>

ApplyFiltersReturn ==
    /\ fpc = "loop"
    /\ fpc' = "returned"
    /\ UNCHANGED <<filter_config, sprint, seen, filtered_sprints, error_log>>
    /\ UNCHANGED <<avgVars, metricVars, projectVars, pageVars, githubVars>>

NextFilter == ApplyFiltersIteration \/ ApplyFiltersReturn

SpecFilter == InitFilter /\ [][NextFilter]_vars

(***************************************************************************)
(* Properties of the sprint filter, stated on the sprint of the last       *)
(* iteration and on the configuration, from their fields alone.            *)
(***************************************************************************)
Evaluated == seen >= 1
Selected == InList(sprint.id, filtered_sprints)
Logged == InList(sprint.id, error_log)

IdsGiven == Len(filter_config.specific_sprint_ids) > 0
RangeEnabled ==
    "date_range" \in DOMAIN filter_config /\ filter_config.date_range.enabled
RangeHasDates ==
    /\ RangeEnabled
    /\ "start_date" \in DOMAIN filter_config.date_range
    /\ "end_date" \in DOMAIN filter_config.date_range
IncludeNoEndDate ==
    "include_no_end_date" \in DOMAIN filter_config
    /\ filter_config.include_no_end_date

NoEndDate == "endDate" \notin DOMAIN sprint \/ sprint.endDate.kind = "none"
HasAwareDates ==
    /\ "startDate" \in DOMAIN sprint /\ sprint.startDate.kind = "aware"
    /\ "endDate" \in DOMAIN sprint /\ sprint.endDate.kind = "aware"
Overlaps ==
    /\ sprint.startDate.t <= filter_config.date_range.end_date.t
    /\ sprint.endDate.t >= filter_config.date_range.start_date.t

StatesGiven == Len(filter_config.sprint_states) > 0
StateIsNone == "state" \in DOMAIN sprint /\ sprint.state = NoneStr
StateName == IF "state" \in DOMAIN sprint THEN sprint.state ELSE "unknown"
StateListed ==
    /\ ~StateIsNone
    /\ \E i \in 1..Len(filter_config.sprint_states) :
          lower(filter_config.sprint_states[i]) = lower(StateName)
StateAllowed == ~StatesGiven \/ StateListed

\* C1: whenever specific_sprint_ids is non-empty, the sprint is selected if
\* and only if its id is in specific_sprint_ids, whatever its state, its
\* dates, the date_range and the sprint_states settings.
C1_SpecificIdsSoleCriterion ==
    (Evaluated /\ IdsGiven)
    => (Selected <=> \E i \in 1..Len(filter_config.specific_sprint_ids) :
                        filter_config.specific_sprint_ids[i] = sprint.id)

\* A listed sprint with an unparsable start date and a None state is selected
\* although the date range and the state filter are both configured.
C1_Witness ==
    /\ Evaluated /\ IdsGiven /\ Selected
    /\ RangeEnabled /\ StatesGiven /\ StateIsNone
    /\ "startDate" \in DOMAIN sprint /\ sprint.startDate.kind = "bad"

\* C2: with specific_sprint_ids empty, date_range enabled and the state
\* allowed (or sprint_states empty), a sprint with start and end dates is
\* selected if and only if start <= range.end and end >= range.start.
C2_InclusiveDateOverlap ==
    (Evaluated /\ ~IdsGiven /\ RangeHasDates /\ HasAwareDates /\ StateAllowed)
    => (Selected <=> Overlaps)

\* A sprint that ends exactly at range.start is selected.
C2_Witness ==
    /\ Evaluated /\ ~IdsGiven /\ RangeHasDates /\ HasAwareDates /\ StateAllowed
    /\ sprint.endDate.t = filter_config.date_range.start_date.t
    /\ sprint.startDate.t < sprint.endDate.t
    /\ Selected

\* C3 as claimed: with specific_sprint_ids empty and date_range enabled, a
\* sprint whose dates overlap the range is selected whatever its state.
C3_StateNotConsultedWithDateRange ==
    (Evaluated /\ ~IdsGiven /\ RangeHasDates /\ HasAwareDates /\ Overlaps)
    => Selected

\* C3 as amended: with specific_sprint_ids empty and date_range enabled, a
\* sprint whose dates overlap the range is selected if and only if
\* sprint_states is empty or lists its state (case-insensitively): the state
\* filter is applied in addition to the date range.
C3_StateFilterAlsoApplies ==
    (Evaluated /\ ~IdsGiven /\ RangeHasDates /\ HasAwareDates /\ Overlaps)
    => (Selected <=> StateAllowed)

\* An overlapping sprint is left out because its state is not listed.
C3_Witness ==
    /\ Evaluated /\ ~IdsGiven /\ RangeHasDates /\ HasAwareDates /\ Overlaps
    /\ StatesGiven /\ "state" \in DOMAIN sprint /\ sprint.state = "FUTURE"
    /\ ~StateAllowed /\ ~Selected

\* C4: with specific_sprint_ids empty and date_range enabled, a sprint with
\* no end date passes the date check if and only if include_no_end_date is
\* true (absent counts as false), whatever its start date and the range
\* bounds; it is then selected if and only if its state is allowed as well.
C4_OpenEndedSprint ==
    (Evaluated /\ ~IdsGiven /\ RangeEnabled /\ NoEndDate)
    => (Selected <=> (IncludeNoEndDate /\ StateAllowed))

\* An open sprint that starts after the range ends is selected.
C4_Witness ==
    /\ Evaluated /\ ~IdsGiven /\ RangeHasDates /\ NoEndDate /\ Selected
    /\ "startDate" \in DOMAIN sprint
    /\ sprint.startDate.t > filter_config.date_range.end_date.t

\* The date check raises: the sprint has an end date and its start date is
\* missing or unparsable, its end date is unparsable, or (the start being
\* no later than range.end) its end date cannot be compared with range.start.
DateCheckRaises ==
    /\ ~IdsGiven /\ RangeEnabled /\ ~NoEndDate
    /\ \/ "startDate" \notin DOMAIN sprint
       \/ sprint.startDate.kind \notin {"aware", "naive"}
       \/ sprint.endDate.kind \notin {"aware", "naive"}
       \/ /\ sprint.startDate.kind = "aware"
          /\ sprint.startDate.t <= filter_config.date_range.end_date.t
          /\ \/ "start_date" \notin DOMAIN filter_config.date_range
             \/ sprint.endDate.kind # "aware"

\* What the filters ask of a sprint on which no check raises.
PassesFilters ==
    IF IdsGiven
    THEN \E i \in 1..Len(filter_config.specific_sprint_ids) :
            filter_config.specific_sprint_ids[i] = sprint.id
    ELSE /\ RangeEnabled =>
               IF NoEndDate THEN IncludeNoEndDate
               ELSE /\ sprint.startDate.t <= filter_config.date_range.end_date.t
                    /\ sprint.endDate.t >= filter_config.date_range.start_date.t
         /\ StateAllowed

\* C5: no exception leaves the filter; a sprint on which a check raises
\* (missing or unparsable date, incomparable datetimes, None state) is
\* reported and not selected; every sprint on which nothing raises, also
\* after an earlier sprint raised, is selected exactly by the filters.
C5_FailClosed ==
    /\ fpc # "raised"
    /\ Evaluated =>
        /\ DateCheckRaises => (Logged /\ ~Selected)
        /\ (~IdsGiven /\ StatesGiven /\ StateIsNone) => ~Selected
        /\ Logged => ~Selected
        /\ ~Logged => (Selected <=> PassesFilters)

\* The first sprint raised in the date check and was left out, the second
\* one was evaluated after it and selected.
C5_Witness ==
    /\ seen = 2 /\ error_log = <<1>> /\ filtered_sprints = <<2>>
    /\ ~IdsGiven /\ RangeEnabled

(***************************************************************************)
(* IssueService (services/jira/issue_service.py)                           *)
(***************************************************************************)

\* range(len(sorted_changelogs) - 2)
PairingOffset == 2

\* dateutil.parser.isoparse: raises on None and on an unparsable string
isoparse(s) ==
    IF s.kind \in {"aware", "naive"} THEN [exc |-> FALSE, val |-> s]
    ELSE [exc |-> TRUE, val |-> s]

IsStatusItem(it) == it.field_id = "status"

\* any(item.field_id == "status" for item in changelog.items)
HasStatusItem(cl) == \E i \in 1..Len(cl.items) : IsStatusItem(cl.items[i])

\* next((it for it in items if it.field_id == "status"), None); only used
\* where that is not None
FirstStatusItem(items) ==
    items[CHOOSE i \in 1..Len(items) :
            /\ IsStatusItem(items[i])
            /\ \A j \in 1..(i - 1) : ~IsStatusItem(items[j])]

\* status_item.from_id or status_item.from_string
FromStatus(it) == IF it.from_id # NoneStr THEN it.from_id ELSE it.from_string

filter_status_changelogs(changelogs) == SelectSeq(changelogs, HasStatusItem)

\* A handler that returns the changelogs the tracker holds.
FailureReturnsChangelogs(answer) == answer.changelogs

\* IssueService.get_issue_changelogs: [] when the request or the parsing
\* raises
get_issue_changelogs(answer) ==
    IF answer.raises THEN <<>> ELSE answer.changelogs

\* The loop of filter_changelogs_by_sprint_dates from entry i on; acc is
\* filtered_changelogs. sprint_end of kind "none" is `sprint_end is None`.
RECURSIVE SprintDatesLoop(_, _, _, _, _)
SprintDatesLoop(changelogs, i, sprint_start, sprint_end, acc) ==
    IF i > Len(changelogs) THEN [exc |-> FALSE, val |-> acc]
    ELSE LET changelog_date == isoparse(changelogs[i].created)
         IN  IF changelog_date.exc THEN [exc |-> TRUE, val |-> acc]
             ELSE LET after == DatetimeLe(sprint_start, changelog_date.val)
                  IN  IF after.exc THEN [exc |-> TRUE, val |-> acc]
                      ELSE IF ~after.val
                      THEN SprintDatesLoop(changelogs, i + 1, sprint_start, sprint_end, acc)
                      ELSE IF sprint_end.kind = "none"
                      THEN SprintDatesLoop(changelogs, i + 1, sprint_start, sprint_end,
                                           Append(acc, changelogs[i]))
                      ELSE LET before == DatetimeLe(changelog_date.val, sprint_end)
                           IN  IF before.exc THEN [exc |-> TRUE, val |-> acc]
                               ELSE SprintDatesLoop(
                                      changelogs, i + 1, sprint_start, sprint_end,
                                      IF before.val THEN Append(acc, changelogs[i])
                                      ELSE acc)

\* Body of the try block of filter_changelogs_by_sprint_dates.
filter_changelogs_by_sprint_dates_try(changelogs, s) ==
    IF ~hasattr(s, "start_date") THEN [exc |-> TRUE, val |-> <<>>]
    ELSE LET sprint_start == isoparse(s.start_date)
         IN  IF sprint_start.exc THEN [exc |-> TRUE, val |-> <<>>]
             ELSE IF ~hasattr(s, "end_date") THEN [exc |-> TRUE, val |-> <<>>]
             ELSE IF FalsyDate(s.end_date)
             THEN SprintDatesLoop(changelogs, 1, sprint_start.val, NoDate, <<>>)
             ELSE LET sprint_end == isoparse(s.end_date)
                  IN  IF sprint_end.exc THEN [exc |-> TRUE, val |-> <<>>]
                      ELSE SprintDatesLoop(changelogs, 1, sprint_start.val,
                                           sprint_end.val, <<>>)

\* A handler that returns the entries filtered before the exception.
WindowFilterKeepsFiltered(changelogs, s) ==
    filter_changelogs_by_sprint_dates_try(changelogs, s).val

\* `except Exception: ...; return changelogs`
filter_changelogs_by_sprint_dates(changelogs, s) ==
    LET r == filter_changelogs_by_sprint_dates_try(changelogs, s)
    IN  IF r.exc THEN changelogs ELSE r.val

Unsorted(changelogs) == changelogs

\* sorted(status_changelogs, key=lambda c: isoparse(c.created)): a stable
\* sort; the key function raises on an unparsable timestamp.
RECURSIVE InsertByCreated(_, _)
InsertByCreated(cl, sorted) ==
    IF sorted = <<>> THEN <<cl>>
    ELSE IF cl.created.t < Head(sorted).created.t THEN <<cl>> \o sorted
    ELSE <<Head(sorted)>> \o InsertByCreated(cl, Tail(sorted))

RECURSIVE SortedByCreated(_)
SortedByCreated(changelogs) ==
    IF changelogs = <<>> THEN <<>>
    ELSE InsertByCreated(changelogs[Len(changelogs)],
                         SortedByCreated(SubSeq(changelogs, 1, Len(changelogs) - 1)))

\* status_deltas[key] += delta on a defaultdict(timedelta)
MapAdd(m, key, delta) ==
    IF key \in DOMAIN m THEN [m EXCEPT ![key] = @ + delta]
    ELSE m @@ (key :> delta)

\* A loop over range(len(sorted_changelogs) - 1): every adjacent pair.
RECURSIVE PairingLoopToLastPair(_, _, _)
PairingLoopToLastPair(sorted_changelogs, c, status_deltas) ==
    IF c >= Len(sorted_changelogs) - 1 THEN status_deltas
    ELSE IF ~HasStatusItem(sorted_changelogs[c + 1]) THEN status_deltas
    ELSE PairingLoopToLastPair(
           sorted_changelogs, c + 1,
           MapAdd(status_deltas,
                  FromStatus(FirstStatusItem(sorted_changelogs[c + 1].items)),
                  sorted_changelogs[c + 2].created.t
                    - sorted_changelogs[c + 1].created.t))

\* The loop of calculate_time_per_status from index c (0-based) on. An entry
\* without a status item raises on status_item.from_id; what was accumulated
\* until then is returned.
RECURSIVE PairingLoop(_, _, _)
PairingLoop(sorted_changelogs, c, status_deltas) ==
    IF c >= Len(sorted_changelogs) - PairingOffset THEN status_deltas
    ELSE IF ~HasStatusItem(sorted_changelogs[c + 1]) THEN status_deltas
    ELSE PairingLoop(
           sorted_changelogs, c + 1,
           MapAdd(status_deltas,
                  FromStatus(FirstStatusItem(sorted_changelogs[c + 1].items)),
                  sorted_changelogs[c + 2].created.t
                    - sorted_changelogs[c + 1].created.t))

\* The sort raises when a timestamp does not parse or when an aware datetime
\* is compared with a naive one; the empty map is returned then.
calculate_time_per_status(changelogs) ==
    IF \/ \E i \in 1..Len(changelogs) : isoparse(changelogs[i].created).exc
       \/ \E i, j \in 1..Len(changelogs) :
             changelogs[i].created.kind # changelogs[j].created.kind
    THEN EmptyDict
    ELSE PairingLoop(SortedByCreated(changelogs), 0, EmptyDict)

\* A collection that also appends a zero duration for every known status the
\* issue did not credit, so that every issue counts in the denominator.
CollectTimesEveryIssue(all_times, issue_times) ==
    [k \in DOMAIN all_times \cup DOMAIN issue_times |->
        Append(IF k \in DOMAIN all_times THEN all_times[k] ELSE <<>>,
               IF k \in DOMAIN issue_times THEN issue_times[k] ELSE 0)]

\* all_status_times[status].append(time_spent) for every item of the map
CollectTimes(all_times, issue_times) ==
    [k \in DOMAIN all_times \cup DOMAIN issue_times |->
        IF k \in DOMAIN issue_times
        THEN Append(IF k \in DOMAIN all_times THEN all_times[k] ELSE <<>>,
                    issue_times[k])
        ELSE all_times[k]]

RECURSIVE SumSeq(_)
SumSeq(times) == IF times = <<>> THEN 0 ELSE Head(times) + SumSeq(Tail(times))

\* timedelta / int: the quotient rounded to the nearest unit, halves to even
TimedeltaDiv(total, n) ==
    LET q == total \div n
        r == total % n
    IN  IF 2 * r > n \/ (2 * r = n /\ q % 2 = 1) THEN q + 1 ELSE q

\* Lines 166-174
AverageTimes(all_times) ==
    [k \in {x \in DOMAIN all_times : Len(all_times[x]) > 0} |->
        TimedeltaDiv(SumSeq(all_times[k]), Len(all_times[k]))]

(***************************************************************************)
(* Inputs of get_avg_time_per_status: the changelogs of an issue and the   *)
(* sprint argument.                                                        *)
(***************************************************************************)
StatusItem(from_id, from_string, to_id) ==
    [field_id |-> "status", from_id |-> from_id, from_string |-> from_string,
     to_id |-> to_id]

AssigneeItem ==
    [field_id |-> "assignee", from_id |-> "u1", from_string |-> "User 1",
     to_id |-> "u2"]

ItemLists ==
    {<<StatusItem("A", "a", "B")>>,
     <<StatusItem("B", "b", "C")>>,
     <<StatusItem(NoneStr, "Todo", "A")>>,
     <<StatusItem(NoneStr, NoneStr, "A")>>,
     <<AssigneeItem>>}

Stamps == 0..MaxStamp

Changelogs ==
    {[created |-> Aware(t), items |-> il] : t \in Stamps, il \in ItemLists}
    \cup {[created |-> BadDate, items |-> <<StatusItem("A", "a", "B")>>]}

SeqsUpTo(S, n) == UNION {[1..k -> S] : k \in 0..n}

ChangelogLists == SeqsUpTo(Changelogs, MaxLog)

\* The inputs of the averaging over several issues: changelogs of at most
\* PairingOffset + 1 status entries, the shortest the loop credits a pair
\* of. Only their first pair is credited, so the statuses of the later
\* entries do not matter and the entries of a list share their status item.
AvgChangelogLists ==
    UNION {SeqsUpTo({[created |-> Aware(t), items |-> il] : t \in Stamps},
                    PairingOffset + 1) :
             il \in {<<StatusItem("A", "a", "B")>>,
                     <<StatusItem(NoneStr, "Todo", "A")>>}}

PyNone == [none |-> TRUE]
IsNone(obj) == "none" \in DOMAIN obj

\* Sprint resources as the tracker client returns them (and the filter
\* selects them): attributes startDate / endDate.
TrackerSprints ==
    {s \in SprintObjects(1) :
        /\ hasattr(s, "state") /\ s.state = "closed"
        /\ hasattr(s, "startDate") /\ s.startDate = Aware(1)
        /\ hasattr(s, "endDate") => s.endDate = Aware(1)}

\* services.jira.models.sprint.Sprint: fields start_date / end_date, both
\* strings (end_date may be None); the last one has a start_date that does
\* not parse
SprintModels ==
    {[id |-> 1, state |-> "closed", start_date |-> Aware(1), end_date |-> e] :
        e \in {Aware(1), NoDate}}
    \cup {[id |-> 1, state |-> "closed", start_date |-> BadDate,
           end_date |-> Aware(1)]}

WindowSprints == {PyNone} \cup TrackerSprints \cup SprintModels

(***************************************************************************)
(* IssueService.get_avg_time_per_status: one action per iteration of the   *)
(* loop over the issues, one for the averaging and the return.             *)
(***************************************************************************)
FilterIdle ==
    /\ filter_config = EmptyDict
    /\ sprint = NoSprint
    /\ seen = 0
    /\ filtered_sprints = <<>>
    /\ error_log = <<>>
    /\ fpc = "idle"

InitAvg ==
    /\ FilterIdle
    /\ MetricsIdle
    /\ ProjectIdle
    /\ PageIdle
    /\ GithubIdle
    /\ window_sprint \in WindowSprints
    /\ issues_done = 0
    /\ changelog_answer = NoAnswer
    /\ all_changelogs = <<>>
    /\ status_changelogs = <<>>
    /\ issue_status_times = EmptyDict
    /\ all_status_times = EmptyDict
    /\ avg_status_times = EmptyDict
    /\ apc = "loop"

\* The tracker's answers to self.jira.changelogs(issue_key): one of the
\* lists, or an exception in place of a list it holds
Answers(lists) ==
    {[raises |-> FALSE, changelogs |-> l] : l \in lists}
        \cup {[raises |-> TRUE,
               changelogs |-> [n \in 1..(PairingOffset + 1) |->
                                 [created |-> Aware(IF n = 1 THEN 0 ELSE 1),
                                  items |-> <<StatusItem("A", "a", "B")>>]]]}

\* Lines 142-159 for one issue whose changelogs are drawn from `lists`.
GetAvgIteration(lists, max_issues) ==
    /\ apc = "loop"
    /\ issues_done < max_issues
    /\ \E answer \in Answers(lists) :
        LET fetched == get_issue_changelogs(answer)
            in_sprint == IF IsNone(window_sprint) THEN fetched
                         ELSE filter_changelogs_by_sprint_dates(fetched, window_sprint)
            status_only == filter_status_changelogs(in_sprint)
            times == calculate_time_per_status(status_only)
        IN  /\ changelog_answer' = answer
            /\ all_changelogs' = fetched
            /\ status_changelogs' = status_only
            /\ issue_status_times' = times
            /\ all_status_times' = CollectTimes(all_status_times, times)
    /\ issues_done' = issues_done + 1
    /\ UNCHANGED <<window_sprint, avg_status_times, apc, filterVars, metricVars,
                   projectVars, pageVars, githubVars>>

\* Lines 166-174
GetAvgReturn ==
    /\ apc = "loop"
    /\ avg_status_times' = AverageTimes(all_status_times)
    /\ apc' = "returned"
    /\ UNCHANGED <<window_sprint, issues_done, changelog_answer, all_changelogs,
                   status_changelogs, issue_status_times, all_status_times,
                   filterVars, metricVars,
                   projectVars, pageVars, githubVars>>

\* One issue with any changelog.
StatusIteration == GetAvgIteration(ChangelogLists, 1)
NextStatus == StatusIteration \/ GetAvgReturn
SpecStatus == InitAvg /\ [][NextStatus]_vars

\* Several issues.
AvgIteration == GetAvgIteration(AvgChangelogLists, MaxIssues)
NextAvg == AvgIteration \/ GetAvgReturn
SpecAvg == InitAvg /\ [][NextAvg]_vars

(***************************************************************************)
(* Properties of the status transition processor, stated on the issue of   *)
(* the last iteration.                                                     *)
(***************************************************************************)
Processed == issues_done >= 1

IsTimestamp(d) == d.kind \in {"aware", "naive"}

NumEntries == Len(status_changelogs)
Stamp(i) == status_changelogs[i].created.t
Origin(i) == FromStatus(FirstStatusItem(status_changelogs[i].items))

AllStampsParse ==
    \A i \in 1..NumEntries : status_changelogs[i].created.kind = "aware"
SortedAscending == \A i \in 1..(NumEntries - 1) : Stamp(i) <= Stamp(i + 1)
AllOriginsResolvable == \A i \in 1..NumEntries : Origin(i) # NoneStr

\* Sum of Stamp(i + 1) - Stamp(i) over the pairs i <= last that originate
\* from status k.
RECURSIVE PairDurations(_, _)
PairDurations(k, last) ==
    IF last < 1 THEN 0
    ELSE PairDurations(k, last - 1)
         + (IF Origin(last) = k THEN Stamp(last + 1) - Stamp(last) ELSE 0)

\* The duration the map credits to status k (none when k is no key).
Credited(k) == IF k \in DOMAIN issue_status_times THEN issue_status_times[k] ELSE 0

\* C6: for n status entries sorted ascending, every adjacent pair
\* (e[i], e[i+1]), 0 <= i <= n-2, adds its duration to the originating
\* status of e[i]; the value of every status is the sum of the durations of
\* all the pairs whose first entry originates from it.
C6_EveryAdjacentPairCredited ==
    (Processed /\ AllStampsParse /\ SortedAscending /\ AllOriginsResolvable)
    => \A k \in {Origin(i) : i \in 1..NumEntries} \cup DOMAIN issue_status_times :
         Credited(k) = PairDurations(k, NumEntries - 1)

\* C7: for a changelog of exactly two entries, A->B created at t1 and B->C
\* created at t2 (t1 <= t2), the map credits status B with exactly t2 - t1.
C7_TwoEntriesCreditB ==
    \A t1, t2 \in Stamps :
        ( /\ Processed /\ IsNone(window_sprint) /\ t1 <= t2
          /\ all_changelogs =
               <<[created |-> Aware(t1), items |-> <<StatusItem("A", "a", "B")>>],
                 [created |-> Aware(t2), items |-> <<StatusItem("B", "b", "C")>>]>> )
        => Credited("B") = t2 - t1

\* The creation timestamp lies in [sprint.startDate, sprint.endDate] of the
\* tracker's sprint resource (no endDate: no upper bound).
InSprintWindow(cl) ==
    /\ cl.created.kind = "aware"
    /\ window_sprint.startDate.t <= cl.created.t
    /\ ("endDate" \in DOMAIN window_sprint /\ window_sprint.endDate.kind = "aware")
         => cl.created.t <= window_sprint.endDate.t

\* The duration map of the status entries created inside the sprint window.
InWindowTimes ==
    calculate_time_per_status(
      SelectSeq(filter_status_changelogs(all_changelogs), InSprintWindow))

\* C8: when get_avg_time_per_status is given the sprint object the tracker
\* client returned, only the entries created inside the sprint window
\* contribute: every status is credited what the in-window entries alone
\* credit it.
C8_WindowAppliedToTrackerSprint ==
    (Processed /\ window_sprint \in TrackerSprints /\ AllOriginsResolvable)
    => \A k \in DOMAIN issue_status_times \cup DOMAIN InWindowTimes :
         Credited(k) = (IF k \in DOMAIN InWindowTimes THEN InWindowTimes[k] ELSE 0)

\* C9: an entry whose status item has neither a from id nor a from name adds
\* no duration: the duration map never has a key for the missing status.
C9_NoKeyForMissingStatus ==
    Processed => NoneStr \notin DOMAIN issue_status_times

\* C10: every value of a per-issue duration map and of the averaged map is
\* >= 0, for any order of the entries and with equal timestamps; a status is
\* a key of the averaged map only if at least one issue credited a duration
\* to it, and every status an issue credited is backed by that contribution.
C10_DurationsNonNegative ==
    /\ \A k \in DOMAIN issue_status_times : issue_status_times[k] >= 0
    /\ \A k \in DOMAIN issue_status_times :
         /\ k \in DOMAIN all_status_times
         /\ all_status_times[k][Len(all_status_times[k])] = issue_status_times[k]
    /\ \A k \in DOMAIN all_status_times :
         /\ Len(all_status_times[k]) >= 1
         /\ Len(all_status_times[k]) <= issues_done
         /\ \A i \in 1..Len(all_status_times[k]) : all_status_times[k][i] >= 0
    /\ \A k \in DOMAIN avg_status_times :
         /\ avg_status_times[k] >= 0
         /\ k \in DOMAIN all_status_times
    /\ apc = "returned" => DOMAIN avg_status_times = DOMAIN all_status_times

\* Two issues credited status A, the second from entries that arrived in
\* descending order of creation; no issue credited Todo, which has no key.
C10_Witness ==
    /\ apc = "returned"
    /\ issues_done = 2
    /\ "A" \in DOMAIN avg_status_times
    /\ Len(all_status_times["A"]) = 2
    /\ "Todo" \notin DOMAIN avg_status_times
    /\ Len(all_changelogs) = 3
    /\ all_changelogs[1].created.t > all_changelogs[2].created.t
    /\ all_changelogs[2].created.t > all_changelogs[3].created.t

(***************************************************************************)
(* Properties of the averaging. Durations are in units of the resolution   *)
(* of timedelta, to which timedelta / int rounds.                          *)
(***************************************************************************)
Contributions(all_times, k) ==
    IF k \in DOMAIN all_times THEN all_times[k] ELSE <<>>

Abs(x) == IF x < 0 THEN 0 - x ELSE x

\* C11: for each status the average is the sum of the per-issue durations of
\* that status divided by the number of issues whose duration map contains
\* the status (to the resolution of timedelta): processing an issue adds one
\* contribution, the issue's duration, to exactly the statuses of its map and
\* none to the others (an issue with no changelog adds none at all), and the
\* returned average of a status is the sum of its contributions divided by
\* their number.
C11_AverageOverContributors ==
    /\ [][issues_done' = issues_done + 1 =>
            \A k \in DOMAIN all_status_times' \cup DOMAIN issue_status_times' :
                Contributions(all_status_times', k) =
                    IF k \in DOMAIN issue_status_times'
                    THEN Append(Contributions(all_status_times, k),
                                issue_status_times'[k])
                    ELSE Contributions(all_status_times, k)]_vars
    /\ [](apc = "returned" =>
            /\ DOMAIN avg_status_times = DOMAIN all_status_times
            /\ \A k \in DOMAIN all_status_times :
                 LET n == Len(all_status_times[k])
                 IN  /\ n >= 1
                     /\ 2 * Abs(n * avg_status_times[k]
                                - SumSeq(all_status_times[k])) <= n)

\* Two issues, the second without any changelog: status A was credited by
\* the first only, and its average is that issue's duration, not half of it.
C11_Witness ==
    /\ apc = "returned"
    /\ issues_done = 2
    /\ all_changelogs = <<>>
    /\ "A" \in DOMAIN avg_status_times
    /\ Len(all_status_times["A"]) = 1
    /\ all_status_times["A"][1] = 2
    /\ avg_status_times["A"] = 2

\* C27: for n status entries sorted ascending, the map credits exactly the
\* pairs (e[i], e[i+1]) with 0 <= i <= n-3: its statuses are the origins of
\* the entries e[0] .. e[n-3] and each has the sum of the durations of those
\* pairs that start in it; the pair (e[n-2], e[n-1]) is left out.
C27_PairsUpToThirdLast ==
    (Processed /\ AllStampsParse /\ SortedAscending) =>
        /\ DOMAIN issue_status_times =
              {Origin(i) : i \in 1..(NumEntries - PairingOffset)}
        /\ \A k \in DOMAIN issue_status_times :
              issue_status_times[k] = PairDurations(k, NumEntries - PairingOffset)

\* Three entries A->B at 0, B->C at 1 and 2: A is credited the first pair,
\* B, the origin of the last pair, has no key.
C27_Witness ==
    /\ Processed
    /\ NumEntries = 3
    /\ AllStampsParse
    /\ Stamp(1) = 0 /\ Stamp(2) = 1 /\ Stamp(3) = 2
    /\ Origin(1) = "A" /\ Origin(2) = "B"
    /\ DOMAIN issue_status_times = {"A"}
    /\ issue_status_times["A"] = 1

\* filter_changelogs_by_sprint_dates raises internally: the sprint object
\* lacks start_date or end_date, one of them does not parse, the creation
\* timestamp of an entry does not parse, or an aware datetime meets a naive
\* one.
WindowFilterRaises ==
    /\ ~IsNone(window_sprint)
    /\ \/ ~({"start_date", "end_date"} \subseteq DOMAIN window_sprint)
       \/ ~IsTimestamp(window_sprint.start_date)
       \/ ~(IsTimestamp(window_sprint.end_date)
              \/ window_sprint.end_date.kind = "none")
       \/ \E i \in 1..Len(all_changelogs) :
             \/ ~IsTimestamp(all_changelogs[i].created)
             \/ all_changelogs[i].created.kind # window_sprint.start_date.kind

\* C29: when filter_changelogs_by_sprint_dates raises internally, the
\* status entries handed to the duration computation are those of the
\* complete changelog of the issue, inside and outside the sprint window,
\* and the duration map is the one computed from all of them.
C29_WindowFilterFailsOpen ==
    (Processed /\ ~changelog_answer.raises /\ WindowFilterRaises) =>
        /\ status_changelogs = filter_status_changelogs(all_changelogs)
        /\ issue_status_times =
              calculate_time_per_status(filter_status_changelogs(all_changelogs))

\* The sprint object has no start_date attribute; its window would be
\* [1, 1]; the entries created at 0, 1 and 2 all take part and status A is
\* credited the pair that starts at 0, outside the window.
C29_Witness ==
    /\ Processed
    /\ window_sprint \in TrackerSprints
    /\ hasattr(window_sprint, "endDate")
    /\ NumEntries = 3
    /\ AllStampsParse
    /\ Stamp(1) = 0 /\ Stamp(2) = 1 /\ Stamp(3) = 2
    /\ Origin(1) = "A"
    /\ issue_status_times["A"] = 1

\* C23: when the changelog request of an issue fails, the iteration for
\* that issue ends normally (get_avg_time_per_status goes on with the next
\* issue), the issue has an empty duration map and the collected durations of
\* every status, hence the averages computed from them, are those of the
\* other issues alone.
C23_FetchFailureContributesNothing ==
    [][(issues_done' = issues_done + 1 /\ changelog_answer'.raises) =>
          /\ apc' = "loop"
          /\ all_changelogs' = <<>>
          /\ DOMAIN issue_status_times' = {}
          /\ all_status_times' = all_status_times
          /\ AverageTimes(all_status_times') = AverageTimes(all_status_times)]_vars

\* Two issues, the request for the second failed although the tracker holds
\* changelogs that credit status A: the average of A is the duration of the
\* first issue.
C23_Witness ==
    /\ apc = "returned"
    /\ issues_done = 2
    /\ changelog_answer.raises
    /\ Len(changelog_answer.changelogs) > PairingOffset
    /\ "A" \in DOMAIN avg_status_times
    /\ Len(all_status_times["A"]) = 1
    /\ avg_status_times["A"] = 2

(***************************************************************************)
(* IssueService: resolution metrics, longest resolution, priorities        *)
(* (issue_service.py:184-346) and Issue.resolution_time_days               *)
(* (models/issue.py:92-101).                                               *)
(*                                                                         *)
(* An Issue is a record [key, fields]; fields is a record with the         *)
(* attributes created, updated, summary, priority; priority is a Priority  *)
(* object [name] or None. A Python float is the fraction [num, den].       *)
(***************************************************************************)
\* timedelta.days counts whole days: model time units per day
UnitsPerDay == 2

Float(num, den) == [num |-> num, den |-> den]

\* datetime - datetime: TypeError when an aware datetime meets a naive one
DatetimeSub(a, b) == IF a.kind = b.kind THEN Ok(a.t - b.t) ELSE Raised

\* A whole-day count that rounds a part of a day up.
DaysRoundedUp(issue) ==
    Ok((issue.fields.updated.t - issue.fields.created.t + UnitsPerDay - 1)
         \div UnitsPerDay)

\* Issue.resolution_time_days: (updated - created).days, the floor of the
\* difference in days
resolution_time_days(issue) ==
    LET created == fromisoformat(issue.fields.created)
        updated == fromisoformat(issue.fields.updated)
    IN  IF created.exc \/ updated.exc THEN Raised
        ELSE LET delta == DatetimeSub(updated.val, created.val)
             IN  IF delta.exc THEN Raised
                 ELSE Ok(delta.val \div UnitsPerDay)

\* Lines 193-197 and 234-238, negated
HasRequiredFields(issue) ==
    /\ hasattr(issue, "fields")
    /\ hasattr(issue.fields, "created")
    /\ hasattr(issue.fields, "updated")

\* Lines 189-211: the loop from issue i on
RECURSIVE ResolutionTimesLoop(_, _, _)
ResolutionTimesLoop(issue_list, i, resolution_times) ==
    IF i > Len(issue_list) THEN resolution_times
    ELSE IF ~HasRequiredFields(issue_list[i])
         THEN ResolutionTimesLoop(issue_list, i + 1, resolution_times)
         ELSE LET d == resolution_time_days(issue_list[i])
              IN  ResolutionTimesLoop(issue_list, i + 1,
                      IF d.exc THEN resolution_times
                      ELSE Append(resolution_times, d.val))

RECURSIVE SeqMax(_)
SeqMax(xs) ==
    IF Len(xs) = 1 THEN xs[1]
    ELSE LET m == SeqMax(Tail(xs)) IN IF xs[1] >= m THEN xs[1] ELSE m

RECURSIVE SeqMin(_)
SeqMin(xs) ==
    IF Len(xs) = 1 THEN xs[1]
    ELSE LET m == SeqMin(Tail(xs)) IN IF xs[1] <= m THEN xs[1] ELSE m

\* Lines 187 and 214
EmptyResolutionMetrics ==
    [count |-> 0, avg_resolution_days |-> Float(0, 1), max_resolution_days |-> 0]

\* IssueService.calculate_resolution_metrics
calculate_resolution_metrics(issue_list) ==
    IF issue_list = <<>> THEN EmptyResolutionMetrics
    ELSE LET resolution_times == ResolutionTimesLoop(issue_list, 1, <<>>)
         IN  IF resolution_times = <<>> THEN EmptyResolutionMetrics
             ELSE [count |-> Len(resolution_times),
                   avg_resolution_days |->
                       Float(SumSeq(resolution_times), Len(resolution_times)),
                   max_resolution_days |-> SeqMax(resolution_times),
                   min_resolution_days |-> SeqMin(resolution_times)]

\* issue.fields.priority.name if issue.fields.priority else "None"
PriorityNameOf(issue) ==
    IF ~hasattr(issue, "fields") \/ ~hasattr(issue.fields, "priority") THEN Raised
    ELSE IF IsNone(issue.fields.priority) THEN Ok("None")
    ELSE IF ~hasattr(issue.fields.priority, "name") THEN Raised
    ELSE Ok(issue.fields.priority.name)

\* Lines 243-254: the dict of the longest issue
LongestEntry(issue) ==
    LET name == PriorityNameOf(issue)
    IN  IF ~hasattr(issue, "key") \/ ~hasattr(issue.fields, "summary") \/ name.exc
        THEN Raised
        ELSE Ok([key |-> issue.key,
                 summary |-> issue.fields.summary,
                 priority |-> name.val,
                 resolution_days |-> resolution_time_days(issue).val,
                 created_date |-> issue.fields.created,
                 updated_date |-> issue.fields.updated])

\* Lines 231-259: the loop from issue i on; the maximum is assigned before
\* the dict is built, so it stays raised when building the dict raises.
RECURSIVE LongestLoop(_, _, _, _)
LongestLoop(issue_list, i, longest_resolution_issue, max_resolution_days) ==
    IF i > Len(issue_list) THEN longest_resolution_issue
    ELSE IF ~HasRequiredFields(issue_list[i])
         THEN LongestLoop(issue_list, i + 1, longest_resolution_issue,
                          max_resolution_days)
         ELSE LET d == resolution_time_days(issue_list[i])
                  entry == LongestEntry(issue_list[i])
              IN  IF d.exc \/ ~(d.val > max_resolution_days)
                  THEN LongestLoop(issue_list, i + 1, longest_resolution_issue,
                                   max_resolution_days)
                  ELSE LongestLoop(issue_list, i + 1,
                                   IF entry.exc THEN longest_resolution_issue
                                   ELSE entry.val,
                                   d.val)

\* IssueService.get_longest_resolution_issue
get_longest_resolution_issue(issue_list) ==
    IF issue_list = <<>> THEN EmptyDict
    ELSE LongestLoop(issue_list, 1, PyNone, 0)

\* A classification that compares the name as it is written.
ClassifyCaseSensitive(name) ==
    IF name = NoneStr \/ name = "" THEN "minor"
    ELSE IF name \in {"highest", "high"} THEN "critical"
    ELSE IF name = "medium" THEN "major"
    ELSE "minor"

\* IssueService.classify_priority
classify_priority(name) ==
    IF name = NoneStr \/ name = "" THEN "minor"
    ELSE LET priority_lower == lower(name)
         IN  IF priority_lower \in {"highest", "high"} THEN "critical"
             ELSE IF priority_lower = "medium" THEN "major"
             ELSE IF priority_lower \in {"low", "lowest"} THEN "minor"
             ELSE "minor"

Increment(priority_counts, category) ==
    [priority_counts EXCEPT ![category] = @ + 1]

\* A loop whose handler logs the failure without counting the issue.
RECURSIVE PriorityLoopDropsFailures(_, _, _)
PriorityLoopDropsFailures(issue_list, i, priority_counts) ==
    IF i > Len(issue_list) THEN priority_counts
    ELSE LET name == PriorityNameOf(issue_list[i])
         IN  PriorityLoopDropsFailures(issue_list, i + 1,
                 IF name.exc THEN priority_counts
                 ELSE Increment(priority_counts, classify_priority(name.val)))

\* Lines 285-294: the loop from issue i on
RECURSIVE PriorityLoop(_, _, _)
PriorityLoop(issue_list, i, priority_counts) ==
    IF i > Len(issue_list) THEN priority_counts
    ELSE LET name == PriorityNameOf(issue_list[i])
         IN  PriorityLoop(issue_list, i + 1,
                 IF name.exc THEN Increment(priority_counts, "minor")
                 ELSE Increment(priority_counts, classify_priority(name.val)))

\* IssueService.calculate_priority_distribution
calculate_priority_distribution(issue_list) ==
    PriorityLoop(issue_list, 1,
                 [critical |-> 0, major |-> 0, minor |-> 0,
                  total |-> Len(issue_list)])

\* Lines 303-313 and 325-335
EmptyDetailedMetrics ==
    [total_issues |-> 0,
     resolution_metrics |-> EmptyDict,
     longest_resolution_issue |-> EmptyDict,
     priority_distribution |->
         [critical |-> 0, major |-> 0, minor |-> 0, total |-> 0]]

IsValidIssue(issue) == hasattr(issue, "fields") /\ hasattr(issue, "key")

\* IssueService.get_sprint_detailed_metrics
get_sprint_detailed_metrics(issue_list) ==
    IF issue_list = <<>> THEN EmptyDetailedMetrics
    ELSE LET valid_issues == SelectSeq(issue_list, IsValidIssue)
         IN  IF valid_issues = <<>> THEN EmptyDetailedMetrics
             ELSE [total_issues |-> Len(valid_issues),
                   resolution_metrics |-> calculate_resolution_metrics(valid_issues),
                   longest_resolution_issue |->
                       get_longest_resolution_issue(valid_issues),
                   priority_distribution |->
                       calculate_priority_distribution(valid_issues)]

(***************************************************************************)
(* Inputs of the metrics: issue lists and priority names.                  *)
(***************************************************************************)
IssueObject(created, updated, priority) ==
    [key |-> 0,
     fields |-> [created |-> created, updated |-> updated,
                 summary |-> "summary", priority |-> priority]]

Priority(name) == [name |-> name]

\* Issues that differ in their dates: resolved after 0..MaxTime units, one
\* updated before it was created, one whose created does not parse, one
\* whose updated has no offset while created has one.
DatedIssues ==
    {IssueObject(Aware(0), Aware(u), Priority("High")) : u \in Times}
    \cup {IssueObject(Aware(1), Aware(0), Priority("High")),
          IssueObject(BadDate, Aware(2), Priority("High")),
          IssueObject(Aware(0), Naive(2), Priority("High"))}

\* Issues that differ in their priority.
PrioritisedIssues ==
    {IssueObject(Aware(0), Aware(2), p) :
        p \in {Priority("Medium"), Priority("low"), Priority("Blocker"), PyNone}}

\* Objects that lack an attribute: no updated, no priority, no fields, no key.
MalformedIssues ==
    {[key |-> 0, fields |-> [created |-> Aware(0), summary |-> "summary",
                             priority |-> Priority("High")]],
     [key |-> 0, fields |-> [created |-> Aware(0), updated |-> Aware(2),
                             summary |-> "summary"]],
     [key |-> 0],
     [fields |-> [created |-> Aware(0), updated |-> Aware(2),
                  summary |-> "summary", priority |-> Priority("High")]]}

IssueShapes == DatedIssues \cup PrioritisedIssues \cup MalformedIssues

\* The key of an issue is its position in the list.
WithKey(issue, i) ==
    IF hasattr(issue, "key") THEN [issue EXCEPT !.key = i] ELSE issue

IssueList(shapes) == [i \in DOMAIN shapes |-> WithKey(shapes[i], i)]

PriorityNames ==
    {"Highest", "highest", "HIGH", "High", "high", "Medium", "MEDIUM", "medium",
     "Low", "low", "LOWEST", "lowest", "Blocker", "None", "", NoneStr}

(***************************************************************************)
(* A call of one method of IssueService on the arguments drawn in Init:    *)
(* classify_priority on a priority name, the others on an issue list.      *)
(***************************************************************************)
InitMetrics ==
    /\ FilterIdle
    /\ AvgIdle
    /\ ProjectIdle
    /\ PageIdle
    /\ GithubIdle
    /\ \/ /\ \E n \in 0..MaxBugs : \E shapes \in [1..n -> IssueShapes] :
                 issues = IssueList(shapes)
          /\ priority_name = ""
       \/ issues = <<>> /\ priority_name \in PriorityNames
    /\ mpc = "start"
    /\ returned = EmptyDict

Return(method, value) ==
    /\ mpc = "start"
    /\ mpc' = method
    /\ returned' = Ok(value)
    /\ UNCHANGED <<issues, priority_name, filterVars, avgVars, projectVars, pageVars, githubVars>>

ClassifyPriority ==
    Return("classify_priority", classify_priority(priority_name))

CalculateResolutionMetrics ==
    Return("calculate_resolution_metrics", calculate_resolution_metrics(issues))

GetLongestResolutionIssue ==
    Return("get_longest_resolution_issue", get_longest_resolution_issue(issues))

CalculatePriorityDistribution ==
    Return("calculate_priority_distribution",
           calculate_priority_distribution(issues))

GetSprintDetailedMetrics ==
    Return("get_sprint_detailed_metrics", get_sprint_detailed_metrics(issues))

NextMetrics ==
    \/ ClassifyPriority
    \/ CalculateResolutionMetrics
    \/ GetLongestResolutionIssue
    \/ CalculatePriorityDistribution
    \/ GetSprintDetailedMetrics

SpecMetrics == InitMetrics /\ [][NextMetrics]_vars

(***************************************************************************)
(* Properties of the metrics, stated on the arguments and the outcome of   *)
(* the call.                                                               *)
(***************************************************************************)
Positions == 1..Len(issues)

\* Issues that have the created and updated fields
WithFields ==
    {i \in Positions :
        /\ "fields" \in DOMAIN issues[i]
        /\ {"created", "updated"} \subseteq DOMAIN issues[i].fields}

\* Issues whose resolution time can be computed: both dates parse and both
\* carry an offset or both carry none
Measured ==
    {i \in WithFields :
        /\ issues[i].fields.created.kind \in {"aware", "naive"}
        /\ issues[i].fields.updated.kind = issues[i].fields.created.kind}

\* Whole days from created to updated
Days(i) ==
    LET units == issues[i].fields.updated.t - issues[i].fields.created.t
    IN  CHOOSE d \in -(MaxTime + 1)..(MaxTime + 1) :
            d * UnitsPerDay <= units /\ units < (d + 1) * UnitsPerDay

MaxDays == CHOOSE m \in {Days(i) : i \in Measured} :
               \A i \in Measured : Days(i) <= m
MinDays == CHOOSE m \in {Days(i) : i \in Measured} :
               \A i \in Measured : Days(i) >= m

RECURSIVE SumDays(_)
SumDays(n) ==
    IF n = 0 THEN 0
    ELSE SumDays(n - 1) + (IF n \in Measured THEN Days(n) ELSE 0)

\* Issues with a key, a summary, a priority and computable dates
WellFormed ==
    {i \in Measured :
        /\ "key" \in DOMAIN issues[i]
        /\ {"summary", "priority"} \subseteq DOMAIN issues[i].fields}

\* C12: for an empty issue list, and for a list in which no issue has the
\* required fields, calculate_resolution_metrics returns, without raising,
\* a result with the four aggregates count, average, max and min, all zero.
C12_EmptyResultHasAllFour ==
    (mpc = "calculate_resolution_metrics" /\ WithFields = {}) =>
        /\ ~returned.exc
        /\ DOMAIN returned.val =
              {"count", "avg_resolution_days", "max_resolution_days",
               "min_resolution_days"}
        /\ returned.val.count = 0
        /\ returned.val.avg_resolution_days.num = 0
        /\ returned.val.max_resolution_days = 0
        /\ returned.val.min_resolution_days = 0

\* The aggregates are those of the issues of Measured.
AggregatesOfMeasured ==
    /\ DOMAIN returned.val =
          {"count", "avg_resolution_days", "max_resolution_days",
           "min_resolution_days"}
    /\ returned.val.max_resolution_days = MaxDays
    /\ returned.val.min_resolution_days = MinDays
    /\ returned.val.avg_resolution_days.num = SumDays(Len(issues))
    /\ returned.val.avg_resolution_days.den = returned.val.count
    /\ MinDays * returned.val.count <= SumDays(Len(issues))
    /\ SumDays(Len(issues)) <= MaxDays * returned.val.count

\* C13 as claimed: with at least one valid issue, count is the number of the
\* issues that have the created and updated fields, and max, min and average
\* are those of their whole-day values.
C13_CountsIssuesWithFields ==
    (mpc = "calculate_resolution_metrics" /\ Measured # {}) =>
        /\ ~returned.exc
        /\ returned.val.count = Cardinality(WithFields)
        /\ AggregatesOfMeasured

\* C13: with at least one issue whose resolution time can be computed, count
\* is the number of the issues that have the created and updated fields and
\* whose resolution time can be computed, max and min are the maximum and
\* the minimum of their whole-day (updated - created) values, average is
\* their sum divided by count, min <= average <= max, and every other issue
\* (lacking a field, or with dates that do not parse or cannot be subtracted)
\* is skipped without changing these aggregates.
C13_AggregatesOfComputableIssues ==
    (mpc = "calculate_resolution_metrics" /\ Measured # {}) =>
        /\ ~returned.exc
        /\ returned.val.count = Cardinality(Measured)
        /\ AggregatesOfMeasured

\* Three issues: one resolved within the day, one after a whole day, and one
\* whose created does not parse, which is skipped.
C13_Witness ==
    /\ mpc = "calculate_resolution_metrics"
    /\ Len(issues) = 3
    /\ Cardinality(WithFields) = 3
    /\ Cardinality(Measured) = 2
    /\ returned.val.count = 2
    /\ returned.val.min_resolution_days = 0
    /\ returned.val.max_resolution_days = 1
    /\ returned.val.avg_resolution_days = Float(1, 2)

CriticalNames == {"Highest", "highest", "HIGH", "High", "high"}
MajorNames == {"Medium", "MEDIUM", "medium"}

Bucket(name) ==
    IF name \in CriticalNames THEN "critical"
    ELSE IF name \in MajorNames THEN "major"
    ELSE "minor"

\* C14: classify_priority returns, without raising, critical for highest and
\* high, major for medium, and minor for low, lowest and every other value
\* (unknown text, the empty string, None), in any letter case; the value is
\* always one of critical, major, minor.
C14_ClassificationIsTotal ==
    mpc = "classify_priority" =>
        /\ ~returned.exc
        /\ returned.val \in {"critical", "major", "minor"}
        /\ returned.val = Bucket(priority_name)

\* An upper-case name is classified as its lower-case form.
C14_Witness ==
    /\ mpc = "classify_priority"
    /\ priority_name = "HIGH"
    /\ returned.val = "critical"

\* The bucket of the issue at position i: that of its priority name, minor
\* when it has no priority or no name can be read
BucketAt(i) ==
    IF /\ "fields" \in DOMAIN issues[i]
       /\ "priority" \in DOMAIN issues[i].fields
       /\ "name" \in DOMAIN issues[i].fields.priority
    THEN Bucket(issues[i].fields.priority.name)
    ELSE "minor"

InBucket(b) == Cardinality({i \in Positions : BucketAt(i) = b})

\* C15: the counts of calculate_priority_distribution satisfy
\* critical + major + minor = total = number of issues of the list, and each
\* issue is counted in exactly one bucket, that of its priority (minor when
\* the priority is missing or reading it raises).
C15_DistributionSumsToTotal ==
    mpc = "calculate_priority_distribution" =>
        /\ ~returned.exc
        /\ returned.val.total = Len(issues)
        /\ returned.val.critical + returned.val.major + returned.val.minor
              = returned.val.total
        /\ returned.val.critical = InBucket("critical")
        /\ returned.val.major = InBucket("major")
        /\ returned.val.minor = InBucket("minor")

\* Three issues: one without a priority attribute, one whose priority is
\* None, one of priority High.
C15_Witness ==
    /\ mpc = "calculate_priority_distribution"
    /\ Len(issues) = 3
    /\ \E i \in Positions :
          "fields" \in DOMAIN issues[i] /\ "priority" \notin DOMAIN issues[i].fields
    /\ \E i \in Positions :
          /\ "fields" \in DOMAIN issues[i]
          /\ "priority" \in DOMAIN issues[i].fields
          /\ IsNone(issues[i].fields.priority)
    /\ returned.val.critical = 1
    /\ returned.val.minor = 2

\* The first position of the list whose resolution days are the maximum
FirstOfMaximum ==
    CHOOSE i \in Measured :
        /\ Days(i) = MaxDays
        /\ \A j \in Measured : Days(j) = MaxDays => i <= j

AllWellFormed == issues # <<>> /\ WellFormed = Positions

\* C16: when several issues share the maximum resolution time, the lookup
\* returns the one that comes first in input order.
C16_TieKeepsFirst ==
    (/\ mpc = "get_longest_resolution_issue"
     /\ AllWellFormed
     /\ Cardinality({i \in Measured : Days(i) = MaxDays}) >= 2) =>
        /\ ~returned.exc
        /\ "key" \in DOMAIN returned.val
        /\ returned.val.key = FirstOfMaximum

\* C17: for a non-empty list of valid issues the lookup returns an issue of
\* the list whose resolution days are the maximum over the list, and that
\* value is max_resolution_days of the resolution metrics of the same list.
C17_LongestIsMaximum ==
    (mpc = "get_sprint_detailed_metrics" /\ AllWellFormed) =>
        /\ ~returned.exc
        /\ "key" \in DOMAIN returned.val.longest_resolution_issue
        /\ returned.val.longest_resolution_issue.key \in Positions
        /\ Days(returned.val.longest_resolution_issue.key) = MaxDays
        /\ returned.val.longest_resolution_issue.resolution_days = MaxDays
        /\ returned.val.resolution_metrics.max_resolution_days = MaxDays

(***************************************************************************)
(* JiraAnalyzer (jira_analyzer.py:20-120) with BoardService                *)
(* (board_service.py) and the parts of SprintService and IssueService it   *)
(* calls.                                                                  *)
(*                                                                         *)
(* A fetched sprint is the record [resource, done_bugs, issue_changelogs]: *)
(* the sprint resource of the tracker together with the tracker's answers  *)
(* to the queries about it (its done bugs, the changelogs of its issues).  *)
(* A dict that is handed over where an object is expected is the record    *)
(* [dict |-> its items]: it has none of the attributes of the object.      *)
(***************************************************************************)
\* scrum_board_ids: the allow-list of board ids
ScrumBoardIds == <<1, 2>>

\* datetime.now(timezone.utc) at the time of the run
CurrentTime == 2

\* strftime("%Y-%m-%d"): the day of a datetime
strftime(d) == d.t \div UnitsPerDay

\* SprintService.is_sprint_active
is_sprint_active(s) ==
    IF ~hasattr(s, "startDate") \/ ~hasattr(s, "endDate") THEN FALSE
    ELSE LET start_date == fromisoformat(s.startDate)
             end_date == fromisoformat(s.endDate)
         IN  IF start_date.exc \/ end_date.exc THEN FALSE
             ELSE LET a == DatetimeLt(start_date.val, Aware(CurrentTime))
                      b == DatetimeLt(Aware(CurrentTime), end_date.val)
                  IN  IF a.exc \/ b.exc THEN FALSE ELSE a.val /\ b.val

\* SprintService.get_sprint_info
get_sprint_info(s) ==
    IF ~hasattr(s, "startDate") \/ ~hasattr(s, "endDate") THEN EmptyDict
    ELSE IF fromisoformat(s.startDate).exc \/ fromisoformat(s.endDate).exc
         THEN EmptyDict
         ELSE IF ~hasattr(s, "id") \/ ~hasattr(s, "name") THEN EmptyDict
         ELSE [id |-> s.id,
               name |-> s.name,
               start_date |-> strftime(s.startDate),
               end_date |-> strftime(s.endDate),
               state |-> IF hasattr(s, "state") THEN s.state ELSE "unknown",
               is_active |-> is_sprint_active(s)]

\* IssueService.get_issue_info: issue.model_dump(), which evaluates the
\* computed fields; {} when that raises
get_issue_info(issue) ==
    IF resolution_time_days(issue).exc THEN [dict |-> EmptyDict]
    ELSE [dict |-> [key |-> issue.key, fields |-> issue.fields,
                    resolution_time_days |-> resolution_time_days(issue).val]]

\* IssueService.get_avg_time_per_status, lines 142-159, from issue i on; an
\* issue is given by the changelogs the tracker returns for it
RECURSIVE AvgLoop(_, _, _, _)
AvgLoop(changelog_lists, i, s, all_times) ==
    IF i > Len(changelog_lists) THEN all_times
    ELSE LET in_sprint ==
                 IF IsNone(s) THEN changelog_lists[i]
                 ELSE filter_changelogs_by_sprint_dates(changelog_lists[i], s)
             times == calculate_time_per_status(filter_status_changelogs(in_sprint))
         IN  AvgLoop(changelog_lists, i + 1, s, CollectTimes(all_times, times))

\* IssueService.get_avg_time_per_status
get_avg_time_per_status(changelog_lists, s) ==
    AverageTimes(AvgLoop(changelog_lists, 1, s, EmptyDict))

\* JiraAnalyzer._analyze_sprint: the f-string of line 94 reads sprint.name
\* and sprint.id
_analyze_sprint(f) ==
    IF ~hasattr(f.resource, "name") \/ ~hasattr(f.resource, "id") THEN Raised
    ELSE Ok([sprint_info |-> get_sprint_info(f.resource),
             issues |-> [i \in 1..Len(f.done_bugs) |-> get_issue_info(f.done_bugs[i])],
             issue_count |-> Len(f.done_bugs),
             metrics |-> get_sprint_detailed_metrics(f.done_bugs),
             status_deltas |->
                 get_avg_time_per_status(f.issue_changelogs, f.resource)])

MatchesFilters(cfg, f) == _sprint_matches_filters(f.resource, cfg).val

\* max_results, the page size of line 20
max_results == 50

Min(a, b) == IF a <= b THEN a ELSE b

\* self.jira.sprints(board_id, startAt, maxResults) of a tracker that holds
\* the sprints `held` for the board: the page of at most maxResults sprints
\* that starts at offset startAt
jira_sprints(held, startAt, maxResults) ==
    SubSeq(held, startAt + 1, Min(startAt + maxResults, Len(held)))

\* A loop that only stops at an empty page.
StopsAtEmptyPageOnly(sprints_page) == FALSE

\* Line 34: fewer results than max_results, the end is reached
ReachedTheEnd(sprints_page) == Len(sprints_page) < max_results

\* A loop whose failing request ends it with the pages received so far.
RECURSIVE PageLoopKeepsReceived(_, _, _)
PageLoopKeepsReceived(fetch, start, sofar) ==
    IF fetch.fail_at = (start \div max_results) + 1 THEN Ok(sofar)
    ELSE LET sprints_page == jira_sprints(fetch.sprints, start, max_results)
         IN  IF Len(sprints_page) = 0 THEN Ok(sofar)
             ELSE IF ReachedTheEnd(sprints_page) THEN Ok(sofar \o sprints_page)
             ELSE PageLoopKeepsReceived(fetch, start + max_results,
                                        sofar \o sprints_page)

\* SprintService.get_sprints_for_board, lines 22-35, from the request at
\* offset start on. A fetch is the record [sprints, fail_at]: the sprints
\* the tracker holds for the board and the number of the page request that
\* raises (0 when none does).
RECURSIVE PageLoop(_, _, _)
PageLoop(fetch, start, sofar) ==
    IF fetch.fail_at = (start \div max_results) + 1 THEN Raised
    ELSE LET sprints_page == jira_sprints(fetch.sprints, start, max_results)
         IN  IF Len(sprints_page) = 0 THEN Ok(sofar)
             ELSE IF ReachedTheEnd(sprints_page) THEN Ok(sofar \o sprints_page)
             ELSE PageLoop(fetch, start + max_results, sofar \o sprints_page)

\* SprintService.get_sprints_for_board
get_sprints_for_board(fetch, cfg) ==
    LET fetched == PageLoop(fetch, 0, <<>>)
    IN  IF fetched.exc THEN <<>>
        ELSE IF cfg = EmptyDict THEN fetched.val
        ELSE SelectSeq(fetched.val, LAMBDA f : MatchesFilters(cfg, f))

\* A loop that appends the sprint results without adding their issue counts.
RECURSIVE BoardLoopForgetsCount(_, _, _)
BoardLoopForgetsCount(sprints, i, board_result) ==
    IF i > Len(sprints) THEN board_result
    ELSE LET sprint_result == _analyze_sprint(sprints[i])
         IN  IF sprint_result.exc THEN board_result
             ELSE BoardLoopForgetsCount(sprints, i + 1,
                     [board_result EXCEPT !.sprints = Append(@, sprint_result.val)])

\* JiraAnalyzer._analyze_board, lines 82-88: the loop from sprint i on; an
\* exception of _analyze_sprint leaves the loop for the handler of line 87
RECURSIVE BoardLoop(_, _, _)
BoardLoop(sprints, i, board_result) ==
    IF i > Len(sprints) THEN board_result
    ELSE LET sprint_result == _analyze_sprint(sprints[i])
         IN  IF sprint_result.exc THEN board_result
             ELSE BoardLoop(sprints, i + 1,
                     [board_result EXCEPT
                         !.sprints = Append(@, sprint_result.val),
                         !.total_issues = @ + sprint_result.val.issue_count])

\* BoardService.get_board_info
get_board_info(board) ==
    IF ~hasattr(board, "id") \/ ~hasattr(board, "name") \/ ~hasattr(board, "type")
    THEN Raised
    ELSE Ok([id |-> board.id, name |-> board.name, type |-> board.type,
             project_key |-> IF hasattr(board, "projectKey") THEN board.projectKey
                             ELSE "Unknown"])

\* JiraAnalyzer._analyze_board: lines 68-74 are outside its try
_analyze_board(board, fetch, cfg) ==
    LET board_info == get_board_info(board)
    IN  IF board_info.exc THEN Raised
        ELSE Ok(BoardLoop(get_sprints_for_board(fetch, cfg), 1,
                          [board_info |-> board_info.val, sprints |-> <<>>,
                           total_issues |-> 0]))

\* BoardService.filter_scrum_boards
filter_scrum_boards(boards, scrum_board_ids) ==
    SelectSeq(boards, LAMBDA board : InList(board.id, scrum_board_ids))

RECURSIVE Concat(_)
Concat(seqs) == IF seqs = <<>> THEN <<>> ELSE Head(seqs) \o Concat(Tail(seqs))

\* Lines 50-53: all_issues
AllIssues(board_results) ==
    Concat([b \in 1..Len(board_results) |->
              Concat([k \in 1..Len(board_results[b].sprints) |->
                        board_results[b].sprints[k].issues])])

(***************************************************************************)
(* JiraAnalyzer.generate_report (jira_analyzer.py:122-219). The report is  *)
(* the sequence of the lines appended; a line is its fixed text with the   *)
(* values formatted into it. The lines of a dict's items come in an        *)
(* arbitrary order.                                                        *)
(***************************************************************************)
Line(text, args) == [text |-> text, args |-> args]

\* `if d:` of a dict or None
Truthy(d) == ~IsNone(d) /\ DOMAIN d # {}

\* a.val followed by b.val, unless a or b raised
Then(a, b) == IF a.exc \/ b.exc THEN Raised ELSE Ok(a.val \o b.val)

RECURSIVE SeqOfSet(_)
SeqOfSet(S) ==
    IF S = {} THEN <<>>
    ELSE LET x == CHOOSE y \in S : TRUE IN <<x>> \o SeqOfSet(S \ {x})

\* timedelta.days
TimedeltaDays(v) == v \div UnitsPerDay

\* Lines 125-128
ReportHeader(res) ==
    Ok(<<Line("=== Jira Analysis Report for Project:", <<res.project>>),
         Line("Total Issues Analyzed:", <<res.total_issues>>)>>)

\* Lines 134-138: KeyError when a date is missing, AttributeError when it is
\* no datetime
DateRangeLines(cfg) ==
    IF DictGet(DictGet(cfg, "date_range", EmptyDict), "enabled", FALSE)
    THEN LET date_range == cfg.date_range
         IN  IF ~hasattr(date_range, "start_date") \/ ~hasattr(date_range, "end_date")
             THEN Raised
             ELSE IF ~(date_range.start_date.kind \in {"aware", "naive"})
                     \/ ~(date_range.end_date.kind \in {"aware", "naive"})
             THEN Raised
             ELSE Ok(<<Line("  Date Range:", <<strftime(date_range.start_date),
                                              strftime(date_range.end_date)>>)>>)
    ELSE Ok(<<>>)

\* Lines 131-146
FilterLines(res) ==
    LET cfg == res.filter_config_used
    IN  IF DOMAIN cfg = {} THEN Ok(<<>>)
        ELSE Then(Ok(<<Line("Filter Configuration:", <<>>)>>),
             Then(DateRangeLines(cfg),
                  Ok((IF Len(DictGet(cfg, "sprint_states", <<>>)) > 0
                      THEN <<Line("  Sprint States:", cfg.sprint_states)>>
                      ELSE <<>>)
                     \o (IF Len(DictGet(cfg, "specific_sprint_ids", <<>>)) > 0
                         THEN <<Line("  Specific Sprint IDs:",
                                     cfg.specific_sprint_ids)>>
                         ELSE <<>>))))

\* Lines 148-154: KeyError when total_resolution_metrics is {}
TotalLines(res) ==
    LET metrics == res.total_resolution_metrics
    IN  IF ~hasattr(metrics, "count") THEN Raised
        ELSE IF metrics.count > 0
        THEN Ok(<<Line("Average Resolution Time:", <<metrics.avg_resolution_days>>),
                  Line("Max Resolution Time:", <<metrics.max_resolution_days>>),
                  Line("Min Resolution Time:", <<metrics.min_resolution_days>>)>>)
        ELSE Ok(<<>>)

\* Lines 182-187
PriorityLines(metrics) ==
    IF DictGet(DictGet(metrics, "priority_distribution", EmptyDict), "total", 0) > 0
    THEN LET priority_dist == metrics.priority_distribution
         IN  <<Line("    Priority Distribution:", <<>>),
               Line("      Critical:", <<priority_dist.critical>>),
               Line("      Major:", <<priority_dist.major>>),
               Line("      Minor:", <<priority_dist.minor>>)>>
    ELSE <<>>

\* Lines 190-197
LongestLines(metrics) ==
    IF Truthy(DictGet(metrics, "longest_resolution_issue", PyNone))
    THEN LET longest_issue == metrics.longest_resolution_issue
         IN  <<Line("    Longest Resolution:",
                    <<longest_issue.key, longest_issue.resolution_days>>),
               Line("      Summary:", <<longest_issue.summary>>),
               Line("      Priority:", <<longest_issue.priority>>)>>
    ELSE <<>>

\* Lines 200-211
ResolutionLines(metrics) ==
    IF DictGet(DictGet(metrics, "resolution_metrics", EmptyDict), "count", 0) > 0
    THEN LET res_metrics == metrics.resolution_metrics
         IN  <<Line("    Resolution Metrics:", <<>>),
               Line("      Average:", <<res_metrics.avg_resolution_days>>),
               Line("      Max:", <<res_metrics.max_resolution_days>>),
               Line("      Min:", <<res_metrics.min_resolution_days>>)>>
    ELSE <<>>

\* Lines 214-217
StatusLines(status_deltas) ==
    IF DOMAIN status_deltas # {}
    THEN LET statuses == SeqOfSet(DOMAIN status_deltas)
         IN  <<Line("    Status Deltas:", <<>>)>>
             \o [n \in 1..Len(statuses) |->
                    Line("      days", <<statuses[n],
                                         TimedeltaDays(status_deltas[statuses[n]])>>)]
    ELSE <<>>

\* Lines 166-217 for one sprint result: KeyError when sprint_info has no
\* name or no state
SprintLines(sprint_result) ==
    LET sprint_info == sprint_result.sprint_info
        metrics == sprint_result.metrics
    IN  IF ~hasattr(sprint_info, "name") \/ ~hasattr(sprint_info, "state")
        THEN Raised
        ELSE Ok(<<Line("  Sprint:", <<sprint_info.name, sprint_info.state,
                                      sprint_result.issue_count>>)>>
                \o (IF sprint_result.issue_count = 0
                    THEN <<Line("    No issues found for sprint",
                                <<sprint_info.name>>)>>
                    ELSE <<>>)
                \o PriorityLines(metrics)
                \o LongestLines(metrics)
                \o ResolutionLines(metrics)
                \o StatusLines(sprint_result.status_deltas))

\* Lines 166-217 from sprint result k of the board on
RECURSIVE SprintsLines(_, _)
SprintsLines(sprint_results, k) ==
    IF k > Len(sprint_results) THEN Ok(<<>>)
    ELSE LET lines == SprintLines(sprint_results[k])
         IN  IF lines.exc THEN Raised
             ELSE Then(lines, SprintsLines(sprint_results, k + 1))

\* Lines 161-217 from board result b on
RECURSIVE BoardsLines(_, _)
BoardsLines(board_results, b) ==
    IF b > Len(board_results) THEN Ok(<<>>)
    ELSE LET board_result == board_results[b]
             board_info == board_result.board_info
             lines == Then(Ok(<<Line("Board:", <<board_info.name, board_info.id>>),
                                Line("Total Issues:", <<board_result.total_issues>>)>>),
                           SprintsLines(board_result.sprints, 1))
         IN  IF lines.exc THEN Raised
             ELSE Then(lines, BoardsLines(board_results, b + 1))

\* JiraAnalyzer.generate_report
generate_report(res) ==
    LET head == Then(ReportHeader(res), Then(FilterLines(res), TotalLines(res)))
    IN  IF head.exc THEN Raised
        ELSE IF Len(res.boards) = 0
        THEN Then(head, Ok(<<Line("No Scrum boards found for project",
                                  <<res.project>>)>>))
        ELSE Then(head, Then(Ok(<<Line("=== Board Details ===", <<>>)>>),
                             BoardsLines(res.boards, 1)))

(***************************************************************************)
(* Inputs of analyze_project: the boards of the project, the sprints of a  *)
(* board, the filter configuration.                                        *)
(***************************************************************************)
BoardObjects(id) ==
    {[id |-> id, name |-> "board", type |-> "scrum"],
     [id |-> id, name |-> "board"]}

TrackerBoards == {<<b1, b2, b3>> : b1 \in BoardObjects(1), b2 \in BoardObjects(2),
                                   b3 \in BoardObjects(3)}

Bug(key, created, updated) ==
    [IssueObject(Aware(created), Aware(updated), Priority("High"))
        EXCEPT !.key = key]

SprintResource(id, state) ==
    [id |-> id, name |-> "sprint", state |-> state,
     startDate |-> Aware(1), endDate |-> Aware(2)]

\* A future sprint without issues
FutureSprint(id) ==
    [resource |-> SprintResource(id, "future"),
     done_bugs |-> <<>>,
     issue_changelogs |-> <<>>]

\* A closed sprint with two done bugs resolved in 3 and 0 days and one issue
\* with three status entries
ClosedSprint(id) ==
    [resource |-> SprintResource(id, "closed"),
     done_bugs |-> <<Bug(1, 0, 3 * UnitsPerDay), Bug(2, 0, 1)>>,
     issue_changelogs |->
         <<[n \in 1..3 |->
              [created |-> Aware(IF n = 1 THEN 0 ELSE 1),
               items |-> <<StatusItem(NoneStr, "Todo", "A")>>]]>>]

\* The closed sprint; a future sprint without issues; a closed
\* sprint whose resource has no name; an active sprint whose resource has no
\* endDate.
FetchedSprints(id) ==
    {ClosedSprint(id),
     FutureSprint(id),
     [resource |-> [id |-> id, state |-> "closed",
                    startDate |-> Aware(1), endDate |-> Aware(2)],
      done_bugs |-> <<Bug(1, 0, UnitsPerDay)>>,
      issue_changelogs |-> <<>>],
     [resource |-> [id |-> id, name |-> "sprint", state |-> "active",
                    startDate |-> Aware(1)],
      done_bugs |-> <<Bug(1, 0, UnitsPerDay)>>,
      issue_changelogs |-> <<>>]}

FetchedSprintLists ==
    UNION {{[i \in 1..n |-> pick[i]] :
              pick \in {p \in [1..n -> UNION {FetchedSprints(i) : i \in 1..n}] :
                          \A i \in 1..n : p[i].resource.id = i}} :
             n \in 0..MaxSprints}

\* A board of more sprints than one page holds
ManySprints == [i \in 1..(max_results + 1) |-> FutureSprint(i)]

\* What the tracker answers to the page requests for a board: every page of
\* a list of sprints; a first request that raises; for a board of two pages,
\* the first page and a second request that raises.
BoardFetches ==
    {[sprints |-> l, fail_at |-> 0] : l \in FetchedSprintLists}
        \cup {[sprints |-> <<ClosedSprint(1)>>, fail_at |-> 1],
              [sprints |-> ManySprints, fail_at |-> 2]}

\* The shipped SPRINT_FILTER_CONFIG on the time scale of the model; no
\* configuration; the shipped one without its start_date; the shipped one
\* with a start_date that is no datetime.
ProjectFilterConfigs ==
    {[date_range |-> [enabled |-> TRUE, start_date |-> Aware(1),
                      end_date |-> Aware(2)],
      sprint_states |-> <<"active", "closed">>,
      specific_sprint_ids |-> <<>>,
      include_no_end_date |-> TRUE],
     EmptyDict,
     [date_range |-> [enabled |-> TRUE, end_date |-> Aware(2)],
      sprint_states |-> <<"active", "closed">>,
      specific_sprint_ids |-> <<>>,
      include_no_end_date |-> TRUE],
     [date_range |-> [enabled |-> TRUE, start_date |-> BadDate,
                      end_date |-> Aware(2)],
      sprint_states |-> <<"active", "closed">>,
      specific_sprint_ids |-> <<>>,
      include_no_end_date |-> TRUE]}

(***************************************************************************)
(* JiraAnalyzer.analyze_project: one action per iteration of the loop over *)
(* the allow-listed boards, one for the roll-up and the return.            *)
(***************************************************************************)
InitProject ==
    /\ AvgIdle
    /\ MetricsIdle
    /\ PageIdle
    /\ GithubIdle
    /\ report = EmptyDict
    /\ filter_config \in ProjectFilterConfigs
    /\ sprint = NoSprint
    /\ seen = 0
    /\ filtered_sprints = <<>>
    /\ error_log = <<>>
    /\ fpc = "idle"
    /\ tracker_boards \in TrackerBoards
    /\ board_sprints = <<>>
    /\ results = [project |-> "LT", boards |-> <<>>, total_issues |-> 0,
                  total_resolution_metrics |-> EmptyDict,
                  filter_config_used |-> filter_config]
    /\ ppc = "boards"

scrum_boards == filter_scrum_boards(tracker_boards, ScrumBoardIds)

\* Lines 44-47 for the next board; an exception of _analyze_board (raised
\* before it fetches the sprints) is caught by the handler of line 59, after
\* which the results are returned
AnalyzeBoard ==
    /\ ppc = "boards"
    /\ Len(results.boards) < Len(scrum_boards)
    /\ LET board == scrum_boards[Len(results.boards) + 1]
       IN  IF get_board_info(board).exc
           THEN /\ ppc' = "returned"
                /\ UNCHANGED <<board_sprints, results>>
           ELSE \E fetch \in BoardFetches :
                  LET board_result ==
                          _analyze_board(board, fetch, filter_config).val
                  IN  /\ board_sprints' = Append(board_sprints, fetch)
                      /\ ppc' = "boards"
                      /\ results' =
                            [results EXCEPT
                               !.boards = Append(@, board_result),
                               !.total_issues = @ + board_result.total_issues]
    /\ UNCHANGED <<tracker_boards, report, filterVars, avgVars, metricVars,
                   pageVars, githubVars>>

\* Lines 49-62
RollUp ==
    /\ ppc = "boards"
    /\ Len(results.boards) = Len(scrum_boards)
    /\ results' = [results EXCEPT !.total_resolution_metrics =
                      calculate_resolution_metrics(AllIssues(results.boards))]
    /\ ppc' = "returned"
    /\ UNCHANGED <<tracker_boards, board_sprints, report, filterVars, avgVars,
                   metricVars, pageVars, githubVars>>

\* generate_report on the results analyze_project returned
GenerateReport ==
    /\ ppc = "returned"
    /\ report' = generate_report(results)
    /\ ppc' = "reported"
    /\ UNCHANGED <<tracker_boards, board_sprints, results, filterVars, avgVars,
                   metricVars, pageVars, githubVars>>

NextProject == AnalyzeBoard \/ RollUp \/ GenerateReport

SpecProject == InitProject /\ [][NextProject]_vars

(***************************************************************************)
(* Properties of the orchestrator, stated on the results dict and on the   *)
(* sprints the tracker returned for the boards analysed.                   *)
(***************************************************************************)
ProjectReturned == ppc = "returned"
RolledUp == ProjectReturned /\ "count" \in DOMAIN results.total_resolution_metrics

AllSprintResults ==
    Concat([b \in 1..Len(results.boards) |-> results.boards[b].sprints])

\* count and sum of the resolution days of the resolution metrics of a sprint
\* result ({} for a sprint without done bugs)
MetricsCount(sprint_result) ==
    DictGet(sprint_result.metrics.resolution_metrics, "count", 0)
MetricsDays(sprint_result) ==
    IF MetricsCount(sprint_result) = 0 THEN 0
    ELSE sprint_result.metrics.resolution_metrics.avg_resolution_days.num

RECURSIVE TotalCount(_)
TotalCount(sprint_results) ==
    IF sprint_results = <<>> THEN 0
    ELSE MetricsCount(Head(sprint_results)) + TotalCount(Tail(sprint_results))

RECURSIVE TotalDays(_)
TotalDays(sprint_results) ==
    IF sprint_results = <<>> THEN 0
    ELSE MetricsDays(Head(sprint_results)) + TotalDays(Tail(sprint_results))

\* C18: when analyze_project has walked the boards, the count of
\* total_resolution_metrics is the sum of the counts of the sprints'
\* resolution metrics, and its average is the sum of the resolution days of
\* all the done bugs divided by that count.
C18_RollUpOverAllDoneBugs ==
    RolledUp =>
        LET total == results.total_resolution_metrics
            n == TotalCount(AllSprintResults)
        IN  /\ total.count = n
            /\ total.avg_resolution_days.num * n =
                  TotalDays(AllSprintResults) * total.avg_resolution_days.den

\* The ids of a sequence of board objects
BoardIds(boards) == [i \in 1..Len(boards) |-> boards[i].id]
\* The sprint results are those of the fetched sprints, one each and in order
\* (a result whose sprint_info is empty carries no id and is identified by
\* its position)
SameSprints(sprint_results, sprints) ==
    /\ Len(sprint_results) = Len(sprints)
    /\ \A i \in 1..Len(sprint_results) :
          "id" \in DOMAIN sprint_results[i].sprint_info =>
              sprint_results[i].sprint_info.id = sprints[i].resource.id

BoardAnalysisRaises(board) == ~({"id", "name", "type"} \subseteq DOMAIN board)
SprintAnalysisRaises(f) == ~({"id", "name"} \subseteq DOMAIN f.resource)

\* The sprints of the b-th analysed board that the filter selects
SelectedSprints(b) == get_sprints_for_board(board_sprints[b], filter_config)

\* C19: analyze_project returns (it never raises) and, when it has, the
\* board results are those of all the allow-listed boards whose analysis
\* does not raise, and the sprint results of each board are those of all its
\* selected sprints whose analysis does not raise, before and after a sprint
\* whose analysis raises.
C19_FailureIsolation ==
    ProjectReturned =>
        /\ BoardIds([b \in 1..Len(results.boards) |-> results.boards[b].board_info]) =
              BoardIds(SelectSeq(scrum_boards,
                                 LAMBDA board : ~BoardAnalysisRaises(board)))
        /\ \A b \in 1..Len(results.boards) :
              SameSprints(results.boards[b].sprints,
                          SelectSeq(SelectedSprints(b),
                                    LAMBDA f : ~SprintAnalysisRaises(f)))

\* C20: the sprint results of each board are, in fetch order and one per
\* sprint, exactly the fetched sprints of the board that satisfy the filter
\* configuration.
C20_ResultTreeMatchesFilter ==
    ProjectReturned =>
        \A b \in 1..Len(results.boards) :
            SameSprints(results.boards[b].sprints, SelectedSprints(b))

RECURSIVE SumIssueCount(_)
SumIssueCount(sprint_results) ==
    IF sprint_results = <<>> THEN 0
    ELSE Head(sprint_results).issue_count + SumIssueCount(Tail(sprint_results))

RECURSIVE SumTotalIssues(_)
SumTotalIssues(board_results) ==
    IF board_results = <<>> THEN 0
    ELSE Head(board_results).total_issues + SumTotalIssues(Tail(board_results))

\* C21: in every result analyze_project returns, also after a board or a
\* sprint failed part-way, the total_issues of each board is the sum of the
\* issue_count of the sprint results listed under it, and the total_issues of
\* the project is the sum of the total_issues of the boards listed.
C21_TotalsAreSums ==
    ProjectReturned =>
        /\ \A b \in 1..Len(results.boards) :
              results.boards[b].total_issues =
                  SumIssueCount(results.boards[b].sprints)
        /\ results.total_issues = SumTotalIssues(results.boards)

\* A first board with a sprint result of two issues followed by a selected
\* sprint whose analysis raised, and a second board that raised.
C21_Witness ==
    /\ ProjectReturned
    /\ Len(results.boards) = 1
    /\ Len(scrum_boards) = 2
    /\ Len(results.boards[1].sprints) = 1
    /\ Len(SelectedSprints(1)) = 2
    /\ results.total_issues = 2

(***************************************************************************)
(* Properties of the report, stated on the results and the lines.          *)
(***************************************************************************)
Reported == ppc = "reported"

HasLine(lines, text) == \E n \in 1..Len(lines) : lines[n].text = text

\* The lines of the report that follow the header line of the k-th sprint
\* of the result tree, up to the next sprint or board
SprintSegment(lines, k) ==
    LET heads == {n \in 1..Len(lines) : lines[n].text = "  Sprint:"}
        head == CHOOSE n \in heads : Cardinality({m \in heads : m < n}) = k - 1
        stops == {n \in (head + 1)..Len(lines) :
                    lines[n].text \in {"  Sprint:", "Board:"}}
        stop == IF stops = {} THEN Len(lines) + 1
                ELSE CHOOSE n \in stops : \A m \in stops : n <= m
    IN  SubSeq(lines, head + 1, stop - 1)

\* The texts of the lines that print the data of a section
DataTexts ==
    {"    Priority Distribution:", "      Critical:", "      Major:",
     "      Minor:", "    Longest Resolution:", "      Summary:",
     "      Priority:", "    Resolution Metrics:", "      Average:",
     "      Max:", "      Min:", "    Status Deltas:", "      days"}

\* The number of sections of a sprint result that have no data: issues,
\* priority distribution, longest resolution, resolution metrics, status
\* durations
EmptySections(sprint_result) ==
    LET metrics == sprint_result.metrics
    IN  (IF sprint_result.issue_count = 0 THEN 1 ELSE 0)
        + (IF metrics.priority_distribution.total = 0 THEN 1 ELSE 0)
        + (IF Truthy(metrics.longest_resolution_issue) THEN 0 ELSE 1)
        + (IF DictGet(metrics.resolution_metrics, "count", 0) = 0 THEN 1 ELSE 0)
        + (IF DOMAIN sprint_result.status_deltas = {} THEN 1 ELSE 0)

ExplanatoryLines(segment) ==
    Cardinality({n \in 1..Len(segment) : segment[n].text \notin DataTexts})

\* C22: in a report, a project without boards has an explanatory line, and
\* the lines of every sprint of the result tree hold one explanatory line for
\* each of its sections that has no data.
C22_EmptySectionsExplained ==
    (Reported /\ ~report.exc) =>
        /\ Len(results.boards) = 0 =>
              HasLine(report.val, "No Scrum boards found for project")
        /\ \A k \in 1..Len(AllSprintResults) :
              ExplanatoryLines(SprintSegment(report.val, k)) >=
                  EmptySections(AllSprintResults[k])

IsDatetime(d) == d.kind \in {"aware", "naive"}

\* A filter configuration whose enabled date range lacks a date or holds a
\* date that is no datetime
MalformedConfig(cfg) ==
    /\ DictGet(DictGet(cfg, "date_range", EmptyDict), "enabled", FALSE)
    /\ \/ ~hasattr(cfg.date_range, "start_date")
       \/ ~hasattr(cfg.date_range, "end_date")
       \/ ~IsDatetime(cfg.date_range.start_date)
       \/ ~IsDatetime(cfg.date_range.end_date)

\* C24: with a malformed filter configuration analyze_project fetches the
\* sprints of no board and returns no result: the error reaches the caller
\* before any data is fetched.
C24_ConfigErrorsSurfaceEarly ==
    MalformedConfig(filter_config) =>
        /\ board_sprints = <<>>
        /\ ~ProjectReturned
        /\ ~Reported

\* The page request number fetch.fail_at raises and is made: the pages
\* before it are full
FetchFails(fetch) ==
    /\ fetch.fail_at # 0
    /\ Len(fetch.sprints) >= (fetch.fail_at - 1) * max_results

\* C30: when a page request for a board fails, whatever pages were received
\* before, the board is listed in the result with its board_info, no sprint
\* and total_issues 0, and the analysis goes on with the next allow-listed
\* board, whose result follows unless its own analysis raises.
C30_FetchFailureEmptiesBoard ==
    \A b \in 1..Len(board_sprints) :
        FetchFails(board_sprints[b]) =>
            /\ Len(results.boards) >= b
            /\ results.boards[b].board_info.id = scrum_boards[b].id
            /\ Len(results.boards[b].sprints) = 0
            /\ results.boards[b].total_issues = 0
            /\ (ProjectReturned /\ b < Len(scrum_boards)
                  /\ ~BoardAnalysisRaises(scrum_boards[b + 1])) =>
                  Len(results.boards) > b

\* No filter configuration; the first page of 50 sprints of board 1 was
\* received and the second request failed: board 1 is listed without
\* sprints, board 2 with its sprint.
C30_Witness ==
    /\ ProjectReturned
    /\ DOMAIN filter_config = {}
    /\ Len(results.boards) = 2
    /\ board_sprints[1].fail_at = 2
    /\ Len(board_sprints[1].sprints) > max_results
    /\ Len(results.boards[1].sprints) = 0
    /\ Len(results.boards[2].sprints) = 1
    /\ results.total_issues = 2

\* C28: for a well-formed filter configuration and every behaviour of the
\* tracker, the result analyze_project returns carries a count in
\* total_resolution_metrics and a name and a state in the sprint_info of
\* every sprint result, and generate_report applied to it returns a text.
C28_RenderingIsTotal ==
    ~MalformedConfig(filter_config) =>
        /\ (ProjectReturned \/ Reported) =>
              /\ "count" \in DOMAIN results.total_resolution_metrics
              /\ \A k \in 1..Len(AllSprintResults) :
                    {"name", "state"} \subseteq
                        DOMAIN AllSprintResults[k].sprint_info
        /\ Reported => ~report.exc

(***************************************************************************)
(* SprintService.get_sprints_for_board, lines 16-42 and 52-54, called      *)
(* without a filter configuration: one action per page request. The        *)
(* tracker holds the sprints board_sprint_ids and puts at most page_cap of *)
(* them on a page.                                                         *)
(***************************************************************************)
MaxBoardSprints == 101

InitPages ==
    /\ FilterIdle
    /\ AvgIdle
    /\ MetricsIdle
    /\ ProjectIdle
    /\ GithubIdle
    /\ \E n \in 0..MaxBoardSprints : board_sprint_ids = [i \in 1..n |-> i]
    /\ page_cap \in {max_results, max_results - 1}
    /\ start_at = 0
    /\ all_sprints = <<>>
    /\ requests = <<>>
    /\ received = <<>>
    /\ spc = "loop"

\* Lines 23-35 for a request the tracker answers; after a break, lines 37-42
FetchPage ==
    /\ spc = "loop"
    /\ LET sprints_page ==
               jira_sprints(board_sprint_ids, start_at, Min(max_results, page_cap))
       IN  /\ requests' = Append(requests, start_at)
           /\ received' = Append(received, sprints_page)
           /\ IF Len(sprints_page) = 0
              THEN /\ spc' = "returned"
                   /\ UNCHANGED <<all_sprints, start_at>>
              ELSE /\ all_sprints' = all_sprints \o sprints_page
                   /\ start_at' = start_at + max_results
                   /\ spc' = IF ReachedTheEnd(sprints_page) THEN "returned"
                             ELSE "loop"
    /\ UNCHANGED <<board_sprint_ids, page_cap, filterVars, avgVars, metricVars,
                   projectVars, githubVars>>

\* Lines 23-25 for a request that raises, then lines 52-54
FetchPageFails ==
    /\ spc = "loop"
    /\ requests' = Append(requests, start_at)
    /\ spc' = "failed"
    /\ UNCHANGED <<board_sprint_ids, page_cap, start_at, all_sprints, received,
                   filterVars, avgVars, metricVars, projectVars, githubVars>>

NextPages == FetchPage \/ FetchPageFails

SpecPages == InitPages /\ [][NextPages]_vars

\* The tracker keeps answering
SpecPagesFair == SpecPages /\ WF_vars(NextPages)

NoDuplicates(seq) == \A i, j \in 1..Len(seq) : seq[i] = seq[j] => i = j

PagesInv ==
    /\ \A i \in 1..Len(requests) : requests[i] = (i - 1) * max_results
    /\ \A i \in 1..Len(received) :
          Len(received[i]) < max_results => Len(requests) = i
    /\ all_sprints = Concat(received)
    /\ NoDuplicates(all_sprints)
    /\ spc = "returned" =>
          /\ Len(requests) = Len(received)
          /\ Len(received[Len(received)]) < max_results

\* C25: the page requests are at the offsets 0, max_results, 2 max_results,
\* ... in that order; no page is requested after a page of fewer than
\* max_results sprints; the list handed to the filter is the concatenation
\* of the received pages, each sprint once; the call returns after a short
\* page; and the loop ends for every board.
C25_Pagination == [](PagesInv) /\ <>(spc # "loop")

\* A board of two full pages and a third page of one sprint: three requests.
C25_Witness ==
    /\ spc = "returned"
    /\ requests = <<0, max_results, 2 * max_results>>
    /\ Len(received) = 3
    /\ Len(received[3]) = 1
    /\ Len(all_sprints) = Len(board_sprint_ids)

(***************************************************************************)
(* GithubClient (clients/github.py:27-43): the class attribute _instance,  *)
(* the objects allocated, and the calls GithubClient() of the program. An  *)
(* object is the record of its attributes; a reference is its heap index.  *)
(***************************************************************************)
MaxConstructions == 3

\* super().__new__(cls) followed by line 33: a fresh object whose only
\* attribute is _initialized
NewObject == [_initialized |-> FALSE]

\* GithubClient.__new__: the class attribute and the heap after the call
__new__(instance, objects) ==
    IF instance = 0
    THEN [_instance |-> Len(objects) + 1, heap |-> Append(objects, NewObject)]
    ELSE [_instance |-> instance, heap |-> objects]

\* An initialiser without the _initialized guard.
InitEveryTime(self, config) ==
    [_initialized |-> TRUE,
     headers |-> DictGet(config, "headers", NoneStr),
     base_url |-> "https://api.github.com",
     owner |-> DictGet(config, "owner", NoneStr),
     repo |-> DictGet(config, "repo", NoneStr)]

\* GithubClient.__init__: the object after the call
__init__(self, config) ==
    IF ~self._initialized
    THEN [_initialized |-> TRUE,
          headers |-> DictGet(config, "headers", NoneStr),
          base_url |-> "https://api.github.com",
          owner |-> DictGet(config, "owner", NoneStr),
          repo |-> DictGet(config, "repo", NoneStr)]
    ELSE self

\* constants.GITHUB_CONFIG as shipped, with and without a token in the
\* environment, and with another owner or repository
GithubConfigs ==
    {[owner |-> o, repo |-> r, headers |-> h] :
        o \in {"arbisoft", "other"},
        r \in {"litmustest-backend", "other"},
        h \in {"token T", "token None"}}

InitGithub ==
    /\ FilterIdle
    /\ AvgIdle
    /\ MetricsIdle
    /\ ProjectIdle
    /\ PageIdle
    /\ GITHUB_CONFIG \in GithubConfigs
    /\ heap = <<>>
    /\ _instance = 0
    /\ clients = <<>>
    /\ init_runs = 0

\* client = GithubClient(): __new__, then __init__ on what it returned
Construct ==
    /\ Len(clients) < MaxConstructions
    /\ LET created == __new__(_instance, heap)
           self == created._instance
       IN  /\ _instance' = created._instance
           /\ heap' = [created.heap EXCEPT
                          ![self] = __init__(created.heap[self], GITHUB_CONFIG)]
           /\ init_runs' = init_runs
                             + (IF created.heap[self]._initialized THEN 0 ELSE 1)
           /\ clients' = Append(clients, self)
    /\ UNCHANGED <<GITHUB_CONFIG, filterVars, avgVars, metricVars, projectVars,
                   pageVars>>

\* The program assigns other values to constants.GITHUB_CONFIG
ConfigChanges ==
    /\ \E config \in GithubConfigs \ {GITHUB_CONFIG} : GITHUB_CONFIG' = config
    /\ UNCHANGED <<heap, _instance, clients, init_runs, filterVars, avgVars,
                   metricVars, projectVars, pageVars>>

NextGithub == Construct \/ ConfigChanges

SpecGithub == InitGithub /\ [][NextGithub]_vars

\* C26: every call GithubClient() returns the same instance, the only
\* object ever allocated; its configuration is initialised once, by the
\* first call, and a later call leaves the instance as it is, whatever the
\* configuration constants have become.
C26_Singleton ==
    /\ [](/\ \A i \in 1..Len(clients) : clients[i] = clients[1]
          /\ Len(heap) <= 1
          /\ clients # <<>> =>
                /\ init_runs = 1
                /\ _instance = clients[1]
                /\ heap[_instance]._initialized
                /\ {"headers", "base_url", "owner", "repo"}
                       \subseteq DOMAIN heap[_instance])
    /\ [][clients # <<>> => heap' = heap]_vars

\* Three constructions, the constants changed after the first: the
\* instance still has the owner of the first construction.
C26_Witness ==
    /\ Len(clients) = 3
    /\ clients[3] = clients[1]
    /\ init_runs = 1
    /\ heap[_instance].owner # GITHUB_CONFIG.owner

====
